---- MODULE Spec2Model ----
(***************************************************************************)
(* Discussion ingestion and feedback-orchestration pipeline of the         *)
(* moodle-ai-processor (stage1_manual): the outline feedback run, the      *)
(* per-contribution analysis of the discussion processor, the final merge  *)
(* call, the four post-selection variants that read an exported           *)
(* discussion, the four loaders, the feedback classifier, the two section  *)
(* reports, and the text functions clean_text and                          *)
(* extract_section_from_text.                                              *)
(*                                                                         *)
(* Python dicts are records whose DOMAIN is the set of keys present.       *)
(* Timestamps (datetime.now()) and log lines are left out: no claim reads  *)
(* them.  A message body is represented by its identity and by the length  *)
(* and word count of its plain text.                                       *)
(***************************************************************************)
EXTENDS Integers, Sequences, FiniteSets, TLC

VARIABLES
    pc,                   \* position of the run being modelled
    posts,                \* the raw records read from the discussion export
    outlines,             \* process_outline_discussion: outlines
    individual_feedbacks, \* process_outline_discussion: individual_feedbacks
    aggregate_analysis,   \* process_outline_discussion: aggregate_analysis
    results,              \* the dict a run returns to its caller
    requests,             \* every call made to ai_client.generate_response, in order
    responses,            \* how each of those calls ended, in the same order
    exit_code,            \* run_outline_feedback.main: its return value (-1: not returned)
    individual_feedback,  \* _analyze_individual_contributions: individual_feedback
    final_report,         \* run_comprehensive_analysis: what _save_final_report wrote
    discussion,           \* DiscussionProcessor._structure_discussion_data: its result
    identified,           \* OutlineAnalyzer.identify_outline_posts: its result
    ai_feedback_posts,    \* AIFeedbackCollector.collect_ai_feedback_posts: its result
    document,             \* the JSON document a loader is given
    feedback_analysis,    \* AIFeedbackCollector.is_ai_feedback: its result for one post
    feedback_report,      \* AIFeedbackCollector.generate_feedback_report_by_section: its result
    outline_report,       \* OutlineAnalyzer.generate_outline_submission_report: its result
    html_text,            \* the string given to clean_text or extract_section_from_text
    section,              \* extract_section_from_text: its result
    clean,                \* clean_text: its result
    call_log,             \* every classifier call so far: what it was given and returned
    json_files,           \* process_discussion_batch: json_files
    results_summary,      \* process_discussion_batch: results_summary
    files_attempted,      \* process_discussion_batch: iterations of its loop so far
    job,                  \* duplicate_materials_bulk: its DuplicationJob and the source course
    add_module_calls,     \* every call made to client.add_module, in order
    duplication_results,  \* duplicate_materials_bulk: results
    duplication_report    \* generate_duplication_report: its result

vars == <<pc, posts, outlines, individual_feedbacks, aggregate_analysis,
          results, requests, responses, exit_code, individual_feedback, final_report,
          discussion, identified, ai_feedback_posts, document, feedback_analysis,
          feedback_report, outline_report, html_text, section, clean,
          call_log, json_files, results_summary, files_attempted, job, add_module_calls,
          duplication_results, duplication_report>>

\* The state of the other programs, which a step of one program leaves alone.
outlineVars == <<outlines, individual_feedbacks, aggregate_analysis, results, exit_code>>
contribVars == <<individual_feedback>>
mergeVars   == <<final_report>>
ingestVars  == <<discussion, identified, ai_feedback_posts>>
loadVars    == <<document>>
reportVars  == <<feedback_analysis, feedback_report, outline_report>>
textVars    == <<html_text, section, clean>>
repeatVars  == <<call_log>>
batchVars   == <<json_files, results_summary, files_attempted>>
duplicatorVars == <<job, add_module_calls, duplication_results, duplication_report>>
toolVars    == <<repeatVars, batchVars, duplicatorVars>>
readerVars  == <<loadVars, reportVars, textVars, toolVars>>

(***************************************************************************)
(* Bounds of the model.                                                    *)
(***************************************************************************)
MaxReplies == 2
MaxContributions == 6
ExtraFeedbackPosts == 2
MaxPosts == 2
MaxReportReplies == 3
MaxFiles == 3
MaxTargets == 2
MaxResults == 3
MaxCalls == 3

(***************************************************************************)
(* Program constants.                                                      *)
(***************************************************************************)
MinOutlineChars == 50
MaxOutlinesAnalyzed == 5
MaxSampleFeedback == 15
MinContentChars == 15

EmptyDict == [k \in {} |-> ""]

\* Before a program has run, its variables hold nothing.
InitLoadVars == document = EmptyDict
InitReportVars ==
    feedback_analysis = EmptyDict /\ feedback_report = EmptyDict /\ outline_report = EmptyDict
InitTextVars == html_text = <<>> /\ section = <<>> /\ clean = <<>>
InitRepeatVars == call_log = {}
InitBatchVars == json_files = <<>> /\ results_summary = <<>> /\ files_attempted = 0
InitDuplicatorVars ==
    /\ job = EmptyDict
    /\ add_module_calls = <<>>
    /\ duplication_results = <<>>
    /\ duplication_report = EmptyDict
InitToolVars == InitRepeatVars /\ InitBatchVars /\ InitDuplicatorVars

MapSeq(s, F(_)) == [i \in 1..Len(s) |-> F(s[i])]

Range(s) == {s[i] : i \in 1..Len(s)}

(***************************************************************************)
(* The text-generation collaborator.  One call ends in one of these ways:  *)
(*   object        the text is a JSON object of the requested schema       *)
(*   object_other  the text is a JSON object without the schema's keys     *)
(*   nonobject     the text is valid JSON but not an object, e.g. []       *)
(*   text          the text is not JSON                                    *)
(*   empty         the text is the empty string (content.strip() == "")    *)
(*   error         requests raises a RequestException / bad response shape *)
(*   timeout       requests raises Timeout after 120 s                     *)
(***************************************************************************)
Outcomes == {"object", "object_other", "nonobject", "text", "empty", "error", "timeout"}

\* OpenRouterClient.generate_response re-raises: the call ends in an exception.
Raises(o) == o \in {"error", "timeout"}

\* The string generate_response returns when it does not raise.
ResponseText(o) ==
    CASE o = "object"       -> "{\"overall_score\": \"7\", \"areas_for_improvement\": []}"
      [] o = "object_other" -> "{}"
      [] o = "nonobject"    -> "[]"
      [] o = "text"         -> "Here is my feedback"
      [] o = "empty"        -> ""

\* json.loads on the response: does it raise JSONDecodeError?
JSONDecodeError(o) == o \in {"text", "empty"}

\* json.loads on the response: is the value a dict (supports item assignment by key)?
IsDict(o) == o \in {"object", "object_other"}

\* The name the export gives the author of post id.
UserNames == <<"Amy", "Ben", "Cat", "Dan", "Eve", "Fay">>
UserFullName(id) == UserNames[id]

(***************************************************************************)
(* Raw records.  The plain text of a message body is described by what the *)
(* code reads of it: the stripped, lower-cased text (spelled out when it   *)
(* is short), its length in characters, its number of words, and the       *)
(* phrases of the code's keyword lists that occur in it or start it.  No   *)
(* message of the catalogue holds a section label; a subject is described  *)
(* by the feedback words in it and by its characters.                      *)
(***************************************************************************)
TextOk  == [lower |-> "ok", chars |-> 2, words |-> 1, phrases |-> {}, starts |-> {}]
Text15  == [lower |-> "i agree with it", chars |-> 15, words |-> 4, phrases |-> {"agree"}, starts |-> {}]
Text16  == [lower |-> "i agree with you", chars |-> 16, words |-> 4, phrases |-> {"agree"}, starts |-> {}]
Text50  == [lower |-> "(50 characters)", chars |-> 50, words |-> 9, phrases |-> {}, starts |-> {}]
Text51  == [lower |-> "(51 characters)", chars |-> 51, words |-> 9, phrases |-> {}, starts |-> {}]
Text130 == [lower |-> "(130 characters)", chars |-> 130, words |-> 22,
            phrases |-> {"outline", "thesis", "thesis statement", "consider", "structure"},
            starts |-> {}]
Text301 == [lower |-> "(301 characters)", chars |-> 301, words |-> 50, phrases |-> {},
            starts |-> {}]
Text400 == [lower |-> "(400 characters)", chars |-> 400, words |-> 66,
            phrases |-> {"reply to this post"}, starts |-> {}]

TextAI  == [lower |-> "(60 characters)", chars |-> 60, words |-> 10,
            phrases |-> {"chatgpt", "ai"}, starts |-> {}]

\* The parent key of a record is a JSON number ("int"), a JSON string spelling
\* a number ("str"), null, or absent; parent is the number written, 0 when
\* there is none.
RawPost(id, parent, text) ==
    [id |-> id, parent |-> parent, parent_type |-> "int", userid |-> 100 + id,
     userfullname |-> UserFullName(id),
     subject |-> [phrases |-> {}, chars |-> <<>>], message |-> text,
     wordcount |-> text.words]

\* A root post whose parent is written in one of the four ways.
EncodedRoot(id, parent_type, text) ==
    [RawPost(id, 0, text) EXCEPT !.parent_type = parent_type]

\* post['parent'] == n for a number n: a string or None equals no number.
ParentEquals(post, n) == post.parent_type = "int" /\ post.parent = n

\* post.get('parent', 0) == n for a number n
ParentOrZeroEquals(post, n) ==
    \/ ParentEquals(post, n)
    \/ (post.parent_type = "absent" /\ n = 0)

(***************************************************************************)
(* OutlineFeedbackProcessor.extract_student_outlines                       *)
(***************************************************************************)
OutlineData(post) ==
    [student_name |-> post.userfullname,
     post_id      |-> post.id,
     outline_text |-> post.message,
     word_count   |-> post.wordcount]

extract_student_outlines(ps) ==
    LET student_posts == IF Len(ps) > 1 THEN Tail(ps) ELSE <<>>
        IsOutline(post) == /\ ParentOrZeroEquals(post, ps[1].id)
                           /\ post.message.chars > MinOutlineChars
    IN  MapSeq(SelectSeq(student_posts, IsOutline), OutlineData)

(***************************************************************************)
(* OutlineFeedbackProcessor.generate_outline_feedback                      *)
(***************************************************************************)
IndividualPrompt(student_outline) ==
    [stage         |-> "individual",
     student       |-> student_outline.student_name,
     word_count    |-> student_outline.word_count,
     content       |-> student_outline.outline_text,
     temperature10 |-> 7,
     max_tokens    |-> 1500]

ErrorEntry(student_outline, e) ==
    [student_name |-> student_outline.student_name,
     post_id      |-> student_outline.post_id,
     error        |-> e]

generate_outline_feedback(student_outline, o) ==
    IF Raises(o) THEN ErrorEntry(student_outline, o)
    ELSE IF JSONDecodeError(o) THEN
        [overall_score |-> "N/A",
         raw_feedback  |-> ResponseText(o),
         parsing_error |-> "Could not parse JSON response",
         student_name  |-> student_outline.student_name,
         post_id       |-> student_outline.post_id]
    ELSE IF ~IsDict(o) THEN
        \* feedback['student_name'] = ... on a list raises TypeError,
        \* caught by the outer except Exception
        ErrorEntry(student_outline, "TypeError")
    ELSE IF o = "object" THEN
        [overall_score         |-> "7",
         areas_for_improvement |-> "[]",
         student_name          |-> student_outline.student_name,
         post_id               |-> student_outline.post_id]
    ELSE
        [student_name |-> student_outline.student_name,
         post_id      |-> student_outline.post_id]

(***************************************************************************)
(* OutlineFeedbackProcessor.generate_aggregate_analysis                    *)
(***************************************************************************)
IsValidFeedback(f) == "error" \notin DOMAIN f /\ "areas_for_improvement" \in DOMAIN f

ValidFeedbacks(feedbacks) == SelectSeq(feedbacks, IsValidFeedback)

FeedbackSummary(f) ==
    [student |-> f.student_name,
     score   |-> IF "overall_score" \in DOMAIN f THEN f.overall_score ELSE "N/A"]

SynthesisPrompt(feedbacks) ==
    [stage         |-> "synthesis",
     total         |-> Len(ValidFeedbacks(feedbacks)),
     summary       |-> MapSeq(ValidFeedbacks(feedbacks), FeedbackSummary),
     detail        |-> ValidFeedbacks(feedbacks),
     temperature10 |-> 7,
     max_tokens    |-> 2000]

\* Whether the call reaches ai_client.generate_response.
SynthesisCalls(feedbacks) == ValidFeedbacks(feedbacks) # <<>>

AnalysisMetadata(feedbacks) ==
    [students_analyzed  |-> Len(ValidFeedbacks(feedbacks)),
     errors_encountered |-> Len(feedbacks) - Len(ValidFeedbacks(feedbacks))]

\* The dict generate_aggregate_analysis returns.
AggregateAnalysis(feedbacks, o) ==
    IF ~SynthesisCalls(feedbacks) THEN [error |-> "No valid feedbacks to analyze"]
    ELSE IF Raises(o) THEN [error |-> o]
    ELSE IF JSONDecodeError(o) THEN
        [raw_analysis       |-> ResponseText(o),
         parsing_error      |-> "Could not parse JSON response",
         students_analyzed  |-> AnalysisMetadata(feedbacks).students_analyzed,
         errors_encountered |-> AnalysisMetadata(feedbacks).errors_encountered]
    ELSE IF ~IsDict(o) THEN [error |-> "TypeError"]
    ELSE IF o = "object" THEN
        [class_overview     |-> "overview",
         students_analyzed  |-> AnalysisMetadata(feedbacks).students_analyzed,
         errors_encountered |-> AnalysisMetadata(feedbacks).errors_encountered]
    ELSE
        [students_analyzed  |-> AnalysisMetadata(feedbacks).students_analyzed,
         errors_encountered |-> AnalysisMetadata(feedbacks).errors_encountered]

\* The list object passed as `feedbacks`, as it is when the call returns: the
\* function reads it (filter, json.dumps) and assigns to none of its items.
FeedbacksAfterAggregateFiltered(feedbacks, o) == ValidFeedbacks(feedbacks)

FeedbacksAfterAggregate(feedbacks, o) == feedbacks

generate_aggregate_analysis(feedbacks, o) ==
    [analysis  |-> AggregateAnalysis(feedbacks, o),
     feedbacks |-> FeedbacksAfterAggregate(feedbacks, o)]

(***************************************************************************)
(* OutlineFeedbackProcessor.process_outline_discussion, one step per       *)
(* blocking call, and run_outline_feedback.main around it.                 *)
(***************************************************************************)
\* Discussions as the forum exports them: the instructor's root post first,
\* then replies, each to an earlier post, around the 50-character threshold.
RECURSIVE RepliesFrom(_, _)
RepliesFrom(id, n) ==
    IF n = 0 THEN {<<>>}
    ELSE {<<>>} \cup
         {<<RawPost(id, p, c)>> \o rest :
             p \in 1..(id - 1), c \in {Text50, Text51},
             rest \in RepliesFrom(id + 1, n - 1)}

RunInputs ==
    {<<>>} \cup {<<RawPost(1, 0, Text400)>> \o rs : rs \in RepliesFrom(2, MaxReplies)}

InitOutline ==
    /\ pc = "Extracting"
    /\ posts \in RunInputs
    /\ outlines = <<>>
    /\ individual_feedbacks = <<>>
    /\ aggregate_analysis = EmptyDict
    /\ results = EmptyDict
    /\ requests = <<>>
    /\ responses = <<>>
    /\ exit_code = -1
    /\ individual_feedback = EmptyDict
    /\ final_report = EmptyDict
    /\ discussion = EmptyDict
    /\ identified = <<>>
    /\ ai_feedback_posts = <<>>
    /\ InitLoadVars /\ InitReportVars /\ InitToolVars /\ InitTextVars

\* lines 339-349: parse, extract, and the two early returns
Extract ==
    /\ pc = "Extracting"
    /\ IF posts = <<>>
       THEN /\ results' = [error |-> "No posts found in discussion file"]
            /\ pc' = "Done"
            /\ outlines' = outlines
       ELSE /\ outlines' = extract_student_outlines(posts)
            /\ IF outlines' = <<>>
               THEN /\ results' = [error |-> "No student outlines found"]
                    /\ pc' = "Done"
               ELSE /\ results' = results
                    /\ pc' = "Generating-Individual"
    /\ UNCHANGED <<readerVars, posts, individual_feedbacks, aggregate_analysis, requests,
                   responses, exit_code, contribVars, mergeVars, ingestVars>>

\* line 352, `for outline in outlines`: the outline of the i-th iteration,
\* and the same loop over reversed(outlines).
OutlineAtReversed(outline_list, i) == outline_list[Len(outline_list) + 1 - i]

OutlineAt(outline_list, i) == outline_list[i]

\* lines 351-356: one iteration of the loop over outlines
GenerateIndividual ==
    /\ pc = "Generating-Individual"
    /\ \E o \in Outcomes :
         LET outline == OutlineAt(outlines, Len(individual_feedbacks) + 1) IN
         /\ requests' = Append(requests, IndividualPrompt(outline))
         /\ responses' = Append(responses, o)
         /\ individual_feedbacks' =
                Append(individual_feedbacks, generate_outline_feedback(outline, o))
    /\ pc' = IF Len(individual_feedbacks') = Len(outlines)
             THEN "Synthesizing-Aggregate" ELSE pc
    /\ UNCHANGED <<readerVars, posts, outlines, aggregate_analysis, results, exit_code,
                   contribVars, mergeVars, ingestVars>>

\* lines 358-390: the aggregate call, then the results dict is compiled and saved
SynthesizeAggregate ==
    /\ pc = "Synthesizing-Aggregate"
    /\ \E o \in Outcomes, saved \in BOOLEAN :
         LET r == generate_aggregate_analysis(individual_feedbacks, o) IN
         /\ requests' = IF SynthesisCalls(individual_feedbacks)
                        THEN Append(requests, SynthesisPrompt(individual_feedbacks))
                        ELSE requests
         /\ responses' = IF SynthesisCalls(individual_feedbacks)
                         THEN Append(responses, o)
                         ELSE responses
         /\ aggregate_analysis' = r.analysis
         /\ individual_feedbacks' = r.feedbacks
         /\ results' =
              LET compiled ==
                    [task_info |-> [total_posts |-> Len(posts),
                                    student_outlines |-> Len(outlines)],
                     individual_feedbacks |-> r.feedbacks,
                     aggregate_analysis |-> r.analysis]
              IN  IF saved
                  THEN [k \in DOMAIN compiled \cup {"output_file"} |->
                          IF k = "output_file" THEN [path |-> "processed"] ELSE compiled[k]]
                  ELSE [k \in DOMAIN compiled \cup {"save_error"} |->
                          IF k = "save_error" THEN [path |-> "OSError"] ELSE compiled[k]]
    /\ pc' = "Done"
    /\ UNCHANGED <<readerVars, posts, outlines, exit_code, contribVars, mergeVars, ingestVars>>

\* run_outline_feedback.main lines 44-48 and 101
Main ==
    /\ pc = "Done"
    /\ exit_code' = IF "error" \in DOMAIN results THEN 1 ELSE 0
    /\ pc' = "Exited"
    /\ UNCHANGED <<readerVars, posts, outlines, individual_feedbacks, aggregate_analysis,
                   results, requests, responses, contribVars, mergeVars, ingestVars>>

NextOutline == Extract \/ GenerateIndividual \/ SynthesizeAggregate \/ Main

SpecOutline == InitOutline /\ [][NextOutline]_vars

\* The run is one thread of blocking calls: each of them returns or raises
\* (the HTTP request has a timeout), so a step that can be taken is taken.
SpecOutlineFair == SpecOutline /\ WF_vars(NextOutline)

(***************************************************************************)
(* DiscussionProcessor._analyze_individual_contributions, one step per     *)
(* iteration of its loop.  posts holds its argument student_posts.         *)
(***************************************************************************)
StudentPost(id, post_type) ==
    [id |-> id, post_type |-> post_type, userfullname |-> UserFullName(((id - 1) % 5) + 2),
     message |-> Text130, wordcount |-> Text130.words]

RECURSIVE ContributionsFrom(_, _)
ContributionsFrom(id, n) ==
    IF n = 0 THEN {<<>>}
    ELSE {<<>>} \cup
         {<<StudentPost(id, t)>> \o rest :
             t \in {"student_outline", "student_response"},
             rest \in ContributionsFrom(id + 1, n - 1)}

IsStudentOutline(p) == p.post_type = "student_outline"

\* line 362
outline_posts(student_posts) == SelectSeq(student_posts, IsStudentOutline)

\* line 366: outline_posts[:5]
AnalyzedOutlines(student_posts) ==
    SubSeq(outline_posts(student_posts), 1,
           IF Len(outline_posts(student_posts)) < MaxOutlinesAnalyzed
           THEN Len(outline_posts(student_posts)) ELSE MaxOutlinesAnalyzed)

ContributionPrompt(post) ==
    [stage         |-> "contribution",
     content       |-> post.message,
     word_count    |-> post.wordcount,
     temperature10 |-> 2,
     max_tokens    |-> 600]

\* The calls of this loop return free text; nothing parses it.
ContributionOutcomes == {"text", "empty", "error", "timeout"}

\* lines 385-399: the dict after iteration i
AfterOutline(feedback, i, post, o) ==
    IF Raises(o) THEN feedback
    ELSE [k \in DOMAIN feedback \cup {i} |->
            IF k = i
            THEN [post_id |-> post.id, wordcount |-> post.wordcount,
                  feedback |-> ResponseText(o)]
            ELSE feedback[k]]

InitContrib ==
    /\ pc = "Analyzing-Individual"
    /\ posts \in ContributionsFrom(1, MaxContributions)
    /\ outlines = <<>>
    /\ individual_feedbacks = <<>>
    /\ aggregate_analysis = EmptyDict
    /\ results = EmptyDict
    /\ requests = <<>>
    /\ responses = <<>>
    /\ exit_code = -1
    /\ individual_feedback = EmptyDict
    /\ final_report = EmptyDict
    /\ discussion = EmptyDict
    /\ identified = <<>>
    /\ ai_feedback_posts = <<>>
    /\ InitLoadVars /\ InitReportVars /\ InitToolVars /\ InitTextVars

\* lines 366-399: one iteration
AnalyzeOutline ==
    /\ pc = "Analyzing-Individual"
    /\ Len(requests) < Len(AnalyzedOutlines(posts))
    /\ \E o \in ContributionOutcomes :
         LET i == Len(requests) + 1
             post == AnalyzedOutlines(posts)[i]
         IN  /\ requests' = Append(requests, ContributionPrompt(post))
             /\ responses' = Append(responses, o)
             /\ individual_feedback' = AfterOutline(individual_feedback, i, post, o)
    /\ UNCHANGED <<readerVars, pc, posts, outlineVars, mergeVars, ingestVars>>

\* line 401
ReturnIndividualFeedback ==
    /\ pc = "Analyzing-Individual"
    /\ Len(requests) = Len(AnalyzedOutlines(posts))
    /\ pc' = "Returned"
    /\ UNCHANGED <<readerVars, posts, requests, responses, outlineVars, contribVars, mergeVars, ingestVars>>

NextContrib == AnalyzeOutline \/ ReturnIndividualFeedback

SpecContrib == InitContrib /\ [][NextContrib]_vars

(***************************************************************************)
(* DiscussionProcessor.run_comprehensive_analysis.  posts holds            *)
(* task2_results['ai_feedback_analysis']['all_feedback_posts'].            *)
(***************************************************************************)
FeedbackPost(id) ==
    [id |-> id, userfullname |-> UserFullName(((id - 1) % 5) + 2),
     message |-> Text130]

FeedbackPosts(n) == [i \in 1..n |-> FeedbackPost(i)]

\* _aggregate_data_for_llm line 654: all_feedback_posts[:15]
FeedbackSample(all_feedback_posts) ==
    SubSeq(all_feedback_posts, 1,
           IF Len(all_feedback_posts) < MaxSampleFeedback
           THEN Len(all_feedback_posts) ELSE MaxSampleFeedback)

SamplePost(post) == [student |-> post.userfullname, message |-> post.message]

\* _aggregate_data_for_llm and the arguments of the call at lines 603-608
MergePrompt(all_feedback_posts) ==
    [stage         |-> "merge",
     sample        |-> MapSeq(FeedbackSample(all_feedback_posts), SamplePost),
     temperature10 |-> 5,
     max_tokens    |-> 4000]

InitMerge ==
    /\ pc \in {"Loading", "Load-Failed"}
    /\ posts \in {FeedbackPosts(n) : n \in 0..(MaxSampleFeedback + ExtraFeedbackPosts)}
    /\ outlines = <<>>
    /\ individual_feedbacks = <<>>
    /\ aggregate_analysis = EmptyDict
    /\ results = EmptyDict
    /\ requests = <<>>
    /\ responses = <<>>
    /\ exit_code = -1
    /\ individual_feedback = EmptyDict
    /\ final_report = EmptyDict
    /\ discussion = EmptyDict
    /\ identified = <<>>
    /\ ai_feedback_posts = <<>>
    /\ InitLoadVars /\ InitReportVars /\ InitToolVars /\ InitTextVars

\* lines 586-595: the two result files are read; a failure returns
LoadTaskResults ==
    /\ pc \in {"Loading", "Load-Failed"}
    /\ pc' = IF pc = "Loading" THEN "Merging-Final" ELSE "Done"
    /\ UNCHANGED <<readerVars, posts, requests, responses, outlineVars, contribVars, mergeVars, ingestVars>>

\* lines 597-611: the prompt is built, the call is made with no handler
\* around it, and the report is written, again with no handler
MergeFinal ==
    /\ pc = "Merging-Final"
    /\ \E o \in Outcomes, saved \in BOOLEAN :
         /\ requests' = Append(requests, MergePrompt(posts))
         /\ responses' = Append(responses, o)
         /\ IF Raises(o) \/ ~saved
            THEN /\ pc' = "Raised"
                 /\ final_report' = final_report
            ELSE /\ pc' = "Done"
                 /\ final_report' = [final_analysis_report |-> ResponseText(o),
                                     user_prompt |-> MergePrompt(posts)]
    /\ UNCHANGED <<readerVars, posts, outlineVars, contribVars, ingestVars>>

NextMerge == LoadTaskResults \/ MergeFinal

SpecMerge == InitMerge /\ [][NextMerge]_vars

(***************************************************************************)
(* DiscussionProcessor._sanitize_post and _structure_discussion_data       *)
(***************************************************************************)
TrivialTokens == {"1", "test", "ok", "yes", "no"}

Intersects(S, T) == S \cap T # {}

Put(f, k, v) == [x \in DOMAIN f \cup {k} |-> IF x = k THEN v ELSE f[x]]

\* lines 186-201; post is the clean post under construction.  The value is the
\* tag returned, or "TypeError" when the comparison of line 198 raises.
classify_post_type(post) ==
    LET message == post.clean_message IN
    IF Intersects(message.phrases, {"outline", "position:", "reason1"}) THEN "student_outline"
    ELSE IF Intersects(message.phrases, {"deepseek", "chatgpt", "ai"}) THEN "ai_feedback"
    ELSE IF ParentEquals(post, 0) /\ message.chars > 200 THEN "instructor_prompt"
    ELSE IF Intersects(message.phrases, {"agree", "disagree"}) THEN "student_response"
    ELSE IF post.parent_type # "int" THEN "TypeError"  \* '>' between str or None and int
    ELSE IF post.parent > 0 THEN "reply"
    ELSE "general_post"

has_content_without_length(clean_message) == clean_message.lower \notin TrivialTokens

\* lines 166-169
has_content(clean_message) ==
    /\ clean_message.chars > MinContentChars
    /\ clean_message.lower \notin TrivialTokens

\* lines 134-172: the clean post; userfullname and userid are not copied
sanitize_post(post_data) ==
    LET clean_post == [id            |-> post_data.id,
                       parent        |-> post_data.parent,
                       parent_type   |-> IF post_data.parent_type = "absent"
                                         THEN "int" ELSE post_data.parent_type,
                       subject       |-> post_data.subject,
                       raw_message   |-> post_data.message,
                       wordcount     |-> post_data.wordcount,
                       clean_message |-> post_data.message]
    IN  [id            |-> clean_post.id,
         parent        |-> clean_post.parent,
         parent_type   |-> clean_post.parent_type,
         subject       |-> clean_post.subject,
         raw_message   |-> clean_post.raw_message,
         wordcount     |-> clean_post.wordcount,
         clean_message |-> clean_post.clean_message,
         has_content   |-> has_content(clean_post.clean_message),
         post_type     |-> classify_post_type(clean_post)]

\* The heuristic without its root condition, for comparison.
is_instructor_post_any_parent(post) ==
    \/ Intersects(post.clean_message.phrases,
                  {"first spend", "reply to this post", "pair up and discuss",
                   "you are an experienced"})
    \/ post.clean_message.chars > 300

\* lines 206-213
is_instructor_post(post) ==
    \/ Intersects(post.clean_message.phrases,
                  {"first spend", "reply to this post", "pair up and discuss",
                   "you are an experienced"})
    \/ (post.clean_message.chars > 300 /\ ParentEquals(post, 0))

IsStudentPost(post) == ~is_instructor_post(post)

HasContentFlag(clean_post) == clean_post.has_content

\* lines 88-92: line 174 returns None for a post without content, line 90 skips it
CleanPosts(raw_posts) == SelectSeq(MapSeq(raw_posts, sanitize_post), HasContentFlag)

\* lines 96-104 from post i on: root_posts as ids, and the 'replies' list of
\* every post that has the key
RECURSIVE BuildThreads(_, _, _, _)
BuildThreads(ps, i, root_posts, replies) ==
    IF i > Len(ps) THEN [root_posts |-> root_posts, replies |-> replies]
    ELSE LET post == ps[i]
             thread_map == {ps[j].id : j \in 1..Len(ps)}
         IN  IF ParentEquals(post, 0)
             THEN BuildThreads(ps, i + 1, Append(root_posts, post.id),
                               Put(replies, post.id, <<>>))
             ELSE IF \E id \in thread_map : ParentEquals(post, id)
             THEN BuildThreads(ps, i + 1, root_posts,
                               Put(replies, post.parent,
                                   Append(IF post.parent \in DOMAIN replies
                                          THEN replies[post.parent] ELSE <<>>,
                                          post.id)))
             ELSE BuildThreads(ps, i + 1, root_posts, replies)

\* line 107: next((p for p in root_posts if self._is_instructor_post(p)), None),
\* as the one-element list of the post's id, or the empty list for None
RECURSIVE FirstInstructorPost(_, _)
FirstInstructorPost(ps, root_posts) ==
    IF root_posts = <<>> THEN <<>>
    ELSE LET p == CHOOSE q \in Range(ps) : q.id = Head(root_posts)
         IN  IF is_instructor_post(p) THEN <<p.id>>
             ELSE FirstInstructorPost(ps, Tail(root_posts))

\* _sanitize_post raises when _classify_post_type does, on any record, and
\* nothing between it and the caller of parse_discussion_json catches.
SanitizeRaises(raw_posts) ==
    \E i \in 1..Len(raw_posts) : sanitize_post(raw_posts[i]).post_type = "TypeError"

\* lines 84-121; discussion_flow and the timestamp are left out
structure_discussion_data(raw_posts) ==
    LET ps == CleanPosts(raw_posts)
        threads == BuildThreads(ps, 1, <<>>, EmptyDict)
        student_posts == SelectSeq(ps, IsStudentPost)
    IN  [metadata |-> [total_posts   |-> Len(ps),
                       root_posts    |-> Len(threads.root_posts),
                       student_posts |-> Len(student_posts)],
         instructor_context    |-> FirstInstructorPost(ps, threads.root_posts),
         threaded_discussion   |-> threads.root_posts,
         replies               |-> threads.replies,
         student_contributions |-> student_posts]

(***************************************************************************)
(* clean_text and extract_section_from_text (AIFeedbackCollector and       *)
(* OutlineAnalyzer, the same code in both).  A string is the sequence of   *)
(* its characters.                                                         *)
(***************************************************************************)
Chars(str) ==
    CASE str = "Section" -> <<"S", "e", "c", "t", "i", "o", "n">>
      [] str = "section" -> <<"s", "e", "c", "t", "i", "o", "n">>
      [] str = "Sec"     -> <<"S", "e", "c">>
      [] str = "sec"     -> <<"s", "e", "c">>
      [] str = "Class"   -> <<"C", "l", "a", "s", "s">>
      [] str = "class"   -> <<"c", "l", "a", "s", "s">>
      [] str = "Group"   -> <<"G", "r", "o", "u", "p">>
      [] str = "group"   -> <<"g", "r", "o", "u", "p">>
      [] str = "Unknown" -> <<"U", "n", "k", "n", "o", "w", "n">>
      [] str = "B2"      -> <<"B", "2">>
      [] str = "A"       -> <<"A">>
      [] str = " "       -> <<" ">>
      [] str = ":"       -> <<":">>
      [] str = "x"       -> <<"x">>
      [] str = "<b>"     -> <<"<", "b", ">">>
      [] str = "<"       -> <<"<">>
      [] str = ">"       -> <<">">>
      [] str = "&"       -> <<"&">>
      [] str = "lt;"     -> <<"l", "t", ";">>
      [] str = "&lt;"    -> <<"&", "l", "t", ";">>
      [] str = "&gt;"    -> <<"&", "g", "t", ";">>
      [] str = "&amp;"   -> <<"&", "a", "m", "p", ";">>
      [] str = "&nbsp;"  -> <<"&", "n", "b", "s", "p", ";">>
      [] str = "Please see Section B2 notes" ->
             <<"P", "l", "e", "a", "s", "e", " ", "s", "e", "e", " ",
               "S", "e", "c", "t", "i", "o", "n", " ", "B", "2", " ",
               "n", "o", "t", "e", "s">>

\* str.lower() and re.IGNORECASE on one character
Lower(c) ==
    CASE c = "A" -> "a" [] c = "B" -> "b" [] c = "C" -> "c" [] c = "G" -> "g"
      [] c = "P" -> "p" [] c = "S" -> "s" [] c = "U" -> "u" [] OTHER -> c

\* [A-Z0-9] under re.IGNORECASE
IsAlnum(c) ==
    Lower(c) \in {"a", "b", "c", "e", "g", "i", "k", "l", "m", "n", "o", "p", "r", "s",
                  "t", "u", "w", "x", "2"}

\* \s
IsSpace(c) == c = " "

\* Does sub occur in str at index i?
OccursAt(sub, str, i) ==
    /\ i + Len(sub) - 1 <= Len(str)
    /\ \A k \in 1..Len(sub) : str[i + k - 1] = sub[k]

\* re.sub('<[^<]+?>', '', str) from index i on: a tag is '<', one or more
\* characters other than '<', and the first '>' after them.
RECURSIVE StripTags(_, _)
StripTags(str, i) ==
    IF i > Len(str) THEN <<>>
    ELSE LET ends == {j \in (i + 2)..Len(str) :
                         /\ str[j] = ">"
                         /\ \A k \in (i + 1)..(j - 1) : str[k] # "<"}
             first == CHOOSE j \in ends : \A k \in ends : j <= k
         IN  IF str[i] = "<" /\ ends # {}
             THEN StripTags(str, first + 1)
             ELSE <<str[i]>> \o StripTags(str, i + 1)

\* str.replace(old, new) from index i on
RECURSIVE Replace(_, _, _, _)
Replace(str, old, new, i) ==
    IF i > Len(str) THEN <<>>
    ELSE IF OccursAt(old, str, i) THEN new \o Replace(str, old, new, i + Len(old))
    ELSE <<str[i]>> \o Replace(str, old, new, i + 1)

\* re.sub(r'\s+', ' ', str).strip() from index i on; out is the text so far
RECURSIVE CollapseSpaces(_, _, _)
CollapseSpaces(str, i, out) ==
    IF i > Len(str)
    THEN IF out # <<>> /\ IsSpace(out[Len(out)]) THEN SubSeq(out, 1, Len(out) - 1) ELSE out
    ELSE IF IsSpace(str[i])
    THEN CollapseSpaces(str, i + 1,
                        IF out = <<>> \/ IsSpace(out[Len(out)]) THEN out
                        ELSE Append(out, " "))
    ELSE CollapseSpaces(str, i + 1, Append(out, str[i]))

\* lines 41-45: the four replacements, in the order of the code
ReplaceEntities(str) ==
    Replace(Replace(Replace(Replace(str, Chars("&nbsp;"), Chars(" "), 1),
                            Chars("&amp;"), Chars("&"), 1),
                    Chars("&lt;"), Chars("<"), 1),
            Chars("&gt;"), Chars(">"), 1)

\* lines 35-49
clean_text(str) ==
    IF str = <<>> THEN <<>>
    ELSE CollapseSpaces(ReplaceEntities(StripTags(str, 1)), 1, <<>>)

\* ai_feedback_collector.py lines 60-66; outline_analyzer.py lines 62-67 has
\* the first four
section_patterns == <<"Section", "Sec", "Class", "Group", "section">>
analyzer_section_patterns == <<"Section", "Sec", "Class", "Group">>

\* Does the label word stand in str at index i, whatever the case?
LabelAt(label, str, i) ==
    /\ i + Len(label) - 1 <= Len(str)
    /\ \A k \in 1..Len(label) : Lower(str[i + k - 1]) = Lower(label[k])

\* \s* is greedy: the first index from i on that holds no whitespace
RECURSIVE SkipSpaces(_, _)
SkipSpaces(str, i) ==
    IF i <= Len(str) /\ IsSpace(str[i]) THEN SkipSpaces(str, i + 1) ELSE i

\* ([A-Z0-9]+) is greedy: the run of alphanumerics from i on
RECURSIVE AlnumRun(_, _)
AlnumRun(str, i) ==
    IF i <= Len(str) /\ IsAlnum(str[i]) THEN <<str[i]>> \o AlnumRun(str, i + 1) ELSE <<>>

\* The group of label\s*([A-Z0-9]+) matched at index i; <<>> when it does not
\* match there.
GroupAt(label, str, i) ==
    IF LabelAt(label, str, i) THEN AlnumRun(str, SkipSpaces(str, i + Len(label))) ELSE <<>>

\* re.search(pattern, text, re.IGNORECASE) from index i on: group(1) of the
\* leftmost match, <<>> for None
RECURSIVE Search(_, _, _)
Search(label, str, i) ==
    IF i > Len(str) THEN <<>>
    ELSE IF GroupAt(label, str, i) # <<>> THEN GroupAt(label, str, i)
    ELSE Search(label, str, i + 1)

\* The loop of lines 68-71 from pattern n on
RECURSIVE FirstPatternMatch(_, _, _)
FirstPatternMatch(patterns, str, n) ==
    IF n > Len(patterns) THEN Chars("Unknown")
    ELSE IF Search(Chars(patterns[n]), str, 1) # <<>> THEN Search(Chars(patterns[n]), str, 1)
    ELSE FirstPatternMatch(patterns, str, n + 1)

\* The loop taken by position in the text instead of by pattern order: the
\* group of whichever pattern matches leftmost.
RECURSIVE LeftmostPatternMatch(_, _)
LeftmostPatternMatch(str, i) ==
    IF i > Len(str) THEN Chars("Unknown")
    ELSE LET here == {n \in 1..Len(section_patterns) :
                          GroupAt(Chars(section_patterns[n]), str, i) # <<>>}
         IN  IF here # {}
             THEN GroupAt(Chars(section_patterns[CHOOSE n \in here : \A m \in here : n <= m]),
                          str, i)
             ELSE LeftmostPatternMatch(str, i + 1)

extract_section_by_position(str) == LeftmostPatternMatch(str, 1)

\* AIFeedbackCollector.extract_section_from_text
extract_section_from_text(str) == FirstPatternMatch(section_patterns, str, 1)

\* OutlineAnalyzer.extract_section_from_text
analyzer_extract_section_from_text(str) == FirstPatternMatch(analyzer_section_patterns, str, 1)

(***************************************************************************)
(* AIFeedbackCollector.is_likely_image_submission, is_ai_feedback and      *)
(* collect_ai_feedback_posts                                               *)
(***************************************************************************)
ai_feedback_phrases ==
    {"your outline", "this outline", "great work", "well done",
     "excellent", "good job", "consider", "suggestion", "feedback",
     "improvement", "strengthen", "clarify", "expand", "develop",
     "thesis statement", "topic sentence", "supporting evidence",
     "conclusion", "body paragraph", "introduction", "structure",
     "organization", "flow", "transition", "coherence", "clarity"}

image_indicators ==
    <<"attached", "image", "picture", "screenshot", "photo",
      "see above", "see below", "shown", "displayed">>

FeedbackWords == {"feedback", "comment", "review"}

\* No post taken for an image, for comparison.
never_image_submission(message, subject, word_count) ==
    [is_image |-> FALSE, confidence |-> "low", reason |-> <<"sufficient_text_content">>]

\* lines 150-192
is_likely_image_submission(message, subject, word_count) ==
    IF word_count <= 5
    THEN [is_image |-> TRUE, confidence |-> "high", reason |-> <<"very_short_message">>]
    ELSE IF word_count <= 15 /\ Intersects(message.phrases, Range(image_indicators))
    THEN [is_image |-> TRUE, confidence |-> "high",
          reason |-> <<"short_message_with",
                       image_indicators[CHOOSE i \in 1..Len(image_indicators) :
                           /\ image_indicators[i] \in message.phrases
                           /\ \A j \in 1..(i - 1) : image_indicators[j] \notin message.phrases]>>]
    ELSE IF Intersects(message.phrases, {"<img", ".jpg", ".png", ".jpeg", ".gif"})
    THEN [is_image |-> TRUE, confidence |-> "high", reason |-> <<"image_html_tags">>]
    ELSE IF word_count <= 10 /\ Intersects(subject.phrases, FeedbackWords)
    THEN [is_image |-> TRUE, confidence |-> "medium",
          reason |-> <<"short_with_feedback_subject">>]
    ELSE [is_image |-> FALSE, confidence |-> "low", reason |-> <<"sufficient_text_content">>]

\* lines 115-131 with the score tested before the image likelihood, for
\* comparison
ClassifiedScoreFirst(is_likely_image, feedback_score, word_count, message) ==
    IF feedback_score >= 3 THEN <<"text_feedback", "high">>
    ELSE IF is_likely_image.is_image
    THEN <<"image_based", is_likely_image.confidence>>
    ELSE IF feedback_score >= 1 /\ word_count > 30 THEN <<"text_feedback", "medium">>
    ELSE IF word_count > 100 /\ Intersects(message.phrases, FeedbackWords)
    THEN <<"text_feedback", "medium">>
    ELSE <<"none", "low">>

\* lines 115-131: feedback_type and confidence
Classified(is_likely_image, feedback_score, word_count, message) ==
    IF is_likely_image.is_image
    THEN <<"image_based", is_likely_image.confidence>>
    ELSE IF feedback_score >= 3 THEN <<"text_feedback", "high">>
    ELSE IF feedback_score >= 1 /\ word_count > 30 THEN <<"text_feedback", "medium">>
    ELSE IF word_count > 100 /\ Intersects(message.phrases, FeedbackWords)
    THEN <<"text_feedback", "medium">>
    ELSE <<"none", "low">>

\* The word count read from the export's wordcount field, for comparison.
ExportWordCount(post) == post.wordcount

\* lines 80 and 82: self.count_words(self.clean_text(post.get('message', '')))
WordCount(post) == post.message.words

\* lines 80-141
is_ai_feedback(post) ==
    LET message == post.message
        word_count == WordCount(post)
        feedback_score ==
            Cardinality(message.phrases \cap ai_feedback_phrases)
            + (IF "suggestion pattern" \in message.phrases THEN 2 ELSE 0)
            + (IF "summary pattern" \in message.phrases THEN 1 ELSE 0)
        matched_phrases ==
            message.phrases \cap
                (ai_feedback_phrases \cup {"suggestion pattern", "summary pattern"})
        is_likely_image == is_likely_image_submission(message, post.subject, word_count)
        classified == Classified(is_likely_image, feedback_score, word_count, message)
    IN  [is_feedback     |-> classified[1] # "none",
         feedback_type   |-> classified[1],
         confidence      |-> classified[2],
         feedback_score  |-> feedback_score,
         matched_phrases |-> matched_phrases,
         word_count      |-> word_count,
         is_image        |-> is_likely_image.is_image]

\* post.get('parent') == '0': in Python no number equals the string '0', and
\* neither does None.
EqualsStringZero(post) == post.parent_type = "str" /\ post.parent = 0

\* The test without the classification, for comparison.
IsCollectedUnclassified(post) == ~EqualsStringZero(post)

IsCollected(post) == ~EqualsStringZero(post) /\ is_ai_feedback(post).is_feedback

FeedbackPostOf(post) ==
    [id                |-> post.id,
     userid            |-> post.userid,
     userfullname      |-> post.userfullname,
     subject           |-> post.subject,
     message           |-> post.message,
     section           |-> extract_section_from_text(post.subject.chars),
     parent            |-> post.parent,
     parent_type       |-> post.parent_type,
     feedback_analysis |-> is_ai_feedback(post)]

\* lines 196-225; the section is searched in message + " " + subject, and
\* the message holds no label
collect_ai_feedback_posts(ps) == MapSeq(SelectSeq(ps, IsCollected), FeedbackPostOf)

(***************************************************************************)
(* OutlineAnalyzer.identify_outline_posts                                  *)
(***************************************************************************)
outline_keywords ==
    {"outline", "plan", "structure", "thesis", "introduction",
     "body paragraph", "conclusion", "topic sentence", "main point",
     "argument", "evidence", "supporting details"}

ai_feedback_starters ==
    {"your outline", "this outline", "great work", "well done",
     "consider", "suggestion", "feedback", "improvement"}

\* outline_analyzer.py lines 87-113
IsIdentifiedOutline(post) ==
    LET has_outline_keywords == Intersects(post.message.phrases, outline_keywords)
        is_substantial == post.message.words > 20
        is_likely_ai_feedback == Intersects(post.message.starts, ai_feedback_starters)
    IN  /\ ~EqualsStringZero(post)
        /\ is_substantial
        /\ (has_outline_keywords \/ ~is_likely_ai_feedback)

IdentifiedPostOf(post) ==
    [id           |-> post.id,
     userid       |-> post.userid,
     userfullname |-> post.userfullname,
     subject      |-> post.subject,
     message      |-> post.message,
     word_count   |-> post.message.words,
     section      |-> analyzer_extract_section_from_text(post.subject.chars),
     parent       |-> post.parent,
     parent_type  |-> post.parent_type]

\* outline_analyzer.py lines 76-129
identify_outline_posts(ps) == MapSeq(SelectSeq(ps, IsIdentifiedOutline), IdentifiedPostOf)

(***************************************************************************)
(* AIFeedbackCollector.generate_feedback_report_by_section                 *)
(***************************************************************************)
SectionsOf(ps) == {ps[i].section : i \in 1..Len(ps)}

\* len(set(p['userfullname'] for p in ...))
DistinctNames(ps) == Cardinality({ps[i].userfullname : i \in 1..Len(ps)})

\* lines 265-273
TextFeedbackDetail(p) ==
    [student    |-> p.userfullname,
     word_count |-> p.feedback_analysis.word_count,
     confidence |-> p.feedback_analysis.confidence,
     subject    |-> p.subject]

\* lines 274-282; the reason is read with .get('reason', 'unknown')
ImageFeedbackDetail(p) ==
    [student    |-> p.userfullname,
     reason     |-> IF "reason" \in DOMAIN p.feedback_analysis
                    THEN p.feedback_analysis.reason ELSE <<"unknown">>,
     confidence |-> p.feedback_analysis.confidence,
     subject    |-> p.subject]

\* lines 250-255: a total accumulated over the sections
RECURSIVE SumField(_, _, _)
SumField(section_stats, secs, field) ==
    IF secs = {} THEN 0
    ELSE LET sec == CHOOSE x \in secs : TRUE
         IN  section_stats[sec][field] + SumField(section_stats, secs \ {sec}, field)

\* lines 229-297
generate_feedback_report_by_section(ps) ==
    LET feedback_posts == collect_ai_feedback_posts(ps)
        InSection(sec) == LET Here(p) == p.section = sec IN SelectSeq(feedback_posts, Here)
        IsText(p) == p.feedback_analysis.feedback_type = "text_feedback"
        IsImage(p) == p.feedback_analysis.feedback_type = "image_based"
        section_stats ==
            [sec \in SectionsOf(feedback_posts) |->
                [total_feedback_posts   |-> Len(InSection(sec)),
                 text_feedback_count    |-> Len(SelectSeq(InSection(sec), IsText)),
                 image_feedback_count   |-> Len(SelectSeq(InSection(sec), IsImage)),
                 students_with_feedback |-> DistinctNames(InSection(sec)),
                 text_feedback_details  |->
                     MapSeq(SelectSeq(InSection(sec), IsText), TextFeedbackDetail),
                 image_feedback_details |->
                     MapSeq(SelectSeq(InSection(sec), IsImage), ImageFeedbackDetail)]]
    IN  [summary |->
             [total_feedback_posts   |-> Len(feedback_posts),
              total_text_feedback    |->
                  SumField(section_stats, DOMAIN section_stats, "text_feedback_count"),
              total_image_feedback   |->
                  SumField(section_stats, DOMAIN section_stats, "image_feedback_count"),
              sections_with_feedback |-> Cardinality(SectionsOf(feedback_posts)),
              unique_students_providing_feedback |-> DistinctNames(feedback_posts)],
         by_section |-> section_stats,
         all_feedback_posts |-> feedback_posts]

(***************************************************************************)
(* OutlineAnalyzer.generate_outline_submission_report                      *)
(***************************************************************************)
RECURSIVE SumWordCounts(_)
SumWordCounts(ps) ==
    IF ps = <<>> THEN 0 ELSE Head(ps).word_count + SumWordCounts(Tail(ps))

\* A truncating variant, for comparison.
Floor1(total, n) == (10 * total) \div n

\* round(total / n, 1), in tenths.  Python rounds the quotient's float to the
\* nearest tenth and an exact tie to the even one; the quotient is at an exact
\* tie only when n is a multiple of 4, where the float is exact too.
Round1(total, n) ==
    LET q == (10 * total) \div n
        r == (10 * total) % n
    IN  IF 2 * r > n \/ (2 * r = n /\ q % 2 = 1) THEN q + 1 ELSE q

OutlineStudent(outline) ==
    [name |-> outline.userfullname, word_count |-> outline.word_count,
     subject |-> outline.subject]

\* outline_analyzer.py lines 164-204; average_words is in tenths
generate_outline_submission_report(ps) ==
    LET identified_posts == identify_outline_posts(ps)
        InSection(sec) == LET Here(p) == p.section = sec IN SelectSeq(identified_posts, Here)
        total_words_by_section ==
            [sec \in SectionsOf(identified_posts) |-> SumWordCounts(InSection(sec))]
        section_stats ==
            [sec \in SectionsOf(identified_posts) |->
                [student_count |-> Len(InSection(sec)),
                 total_words   |-> total_words_by_section[sec],
                 average_words |-> Round1(total_words_by_section[sec], Len(InSection(sec))),
                 students      |-> MapSeq(InSection(sec), OutlineStudent)]]
        RECURSIVE SumValues(_)
        SumValues(secs) ==
            IF secs = {} THEN 0
            ELSE LET sec == CHOOSE x \in secs : TRUE
                 IN  total_words_by_section[sec] + SumValues(secs \ {sec})
    IN  [summary |->
             [total_outlines_identified |-> Len(identified_posts),
              sections_with_submissions |-> Cardinality(SectionsOf(identified_posts)),
              total_words_across_all_outlines |-> SumValues(SectionsOf(identified_posts))],
         by_section |-> section_stats,
         detailed_outlines |-> identified_posts]

(***************************************************************************)
(* The four readers of one export, each a program of its own.              *)
(***************************************************************************)
IngestTexts == {TextOk, Text15, Text16, Text50, Text51, Text130, Text301, Text400}

\* A parent id that no record of the export has: the parent lies outside the
\* exported window.
AbsentId == MaxPosts + 2

RECURSIVE Ancestors(_, _, _)
Ancestors(ps, i, n) ==
    IF n = 0 \/ ps[i].parent \notin 1..Len(ps) THEN {}
    ELSE {ps[i].parent} \cup Ancestors(ps, ps[i].parent, n - 1)

\* Records with ids 1..k in any parent relation a forum can hold: parents are
\* the root sentinel, another record, or a record outside the export; no
\* record is its own ancestor.
Exports(k) ==
    {ps \in [1..k -> {RawPost(i, p, t) : i \in 1..k, p \in (0..k) \cup {AbsentId},
                                         t \in IngestTexts}] :
        \A i \in 1..k : /\ ps[i].id = i
                        /\ i \notin Ancestors(ps, i, k)}

InitIngest ==
    /\ pc = "Loaded"
    /\ posts \in UNION {Exports(k) : k \in 0..MaxPosts}
    /\ outlines = <<>>
    /\ individual_feedbacks = <<>>
    /\ aggregate_analysis = EmptyDict
    /\ results = EmptyDict
    /\ requests = <<>>
    /\ responses = <<>>
    /\ exit_code = -1
    /\ individual_feedback = EmptyDict
    /\ final_report = EmptyDict
    /\ discussion = EmptyDict
    /\ identified = <<>>
    /\ ai_feedback_posts = <<>>
    /\ InitLoadVars /\ InitReportVars /\ InitToolVars /\ InitTextVars

StructureDiscussion ==
    /\ pc = "Loaded"
    /\ IF SanitizeRaises(posts)
       THEN pc' = "Raised" /\ UNCHANGED discussion
       ELSE /\ discussion' = structure_discussion_data(posts)
            /\ pc' = "Structured"
    /\ UNCHANGED <<readerVars, posts, requests, responses, outlineVars, contribVars, mergeVars,
                   identified, ai_feedback_posts>>

ExtractOutlines ==
    /\ pc = "Loaded"
    /\ outlines' = extract_student_outlines(posts)
    /\ pc' = "Extracted"
    /\ UNCHANGED <<readerVars, posts, requests, responses, individual_feedbacks, aggregate_analysis,
                   results, exit_code, contribVars, mergeVars, ingestVars>>

IdentifyOutlinePosts ==
    /\ pc = "Loaded"
    /\ identified' = identify_outline_posts(posts)
    /\ pc' = "Identified"
    /\ UNCHANGED <<readerVars, posts, requests, responses, outlineVars, contribVars, mergeVars,
                   discussion, ai_feedback_posts>>

CollectAIFeedback ==
    /\ pc = "Loaded"
    /\ ai_feedback_posts' = collect_ai_feedback_posts(posts)
    /\ pc' = "Collected"
    /\ UNCHANGED <<readerVars, posts, requests, responses, outlineVars, contribVars, mergeVars,
                   discussion, identified>>

NextIngest ==
    StructureDiscussion \/ ExtractOutlines \/ IdentifyOutlinePosts \/ CollectAIFeedback

SpecIngest == InitIngest /\ [][NextIngest]_vars

(***************************************************************************)
(* The same four readers on exports that write the parent of a root post   *)
(* in any of the four ways.                                                *)
(***************************************************************************)
ParentTypes == {"int", "str", "null", "absent"}

EncodedTexts == {TextOk, Text16, Text130, Text400, TextAI}

EncodedExports(k) ==
    {ps \in [1..k -> {EncodedRoot(i, e, t) : i \in 1..k, e \in ParentTypes, t \in EncodedTexts}
                     \cup {RawPost(i, p, t) : i \in 1..k, p \in 1..k, t \in EncodedTexts}] :
        \A i \in 1..k : /\ ps[i].id = i
                        /\ i \notin Ancestors(ps, i, k)}

InitEncoded ==
    /\ pc = "Loaded"
    /\ posts \in UNION {EncodedExports(k) : k \in 0..MaxPosts}
    /\ outlines = <<>>
    /\ individual_feedbacks = <<>>
    /\ aggregate_analysis = EmptyDict
    /\ results = EmptyDict
    /\ requests = <<>>
    /\ responses = <<>>
    /\ exit_code = -1
    /\ individual_feedback = EmptyDict
    /\ final_report = EmptyDict
    /\ discussion = EmptyDict
    /\ identified = <<>>
    /\ ai_feedback_posts = <<>>
    /\ InitLoadVars /\ InitReportVars /\ InitToolVars /\ InitTextVars

SpecEncoded == InitEncoded /\ [][NextIngest]_vars

(***************************************************************************)
(* The text functions on their own.  A text is a few pieces written one    *)
(* after the other.                                                        *)
(***************************************************************************)
MaxPieces == 3

SectionPieces == {"Section", "sec", "Class", "group", " ", ":", "B2", "A"}

MarkupPieces == {"<b>", "&lt;", "&gt;", "&amp;", "&nbsp;", " ", "x", "lt;"}

RECURSIVE Concat(_)
Concat(pieces) ==
    IF pieces = <<>> THEN <<>> ELSE Chars(Head(pieces)) \o Concat(Tail(pieces))

TextsOf(Pieces) == {Concat(ps) : ps \in UNION {[1..n -> Pieces] : n \in 0..MaxPieces}}

InitText ==
    /\ pc = "Given"
    /\ html_text \in TextsOf(SectionPieces) \cup TextsOf(MarkupPieces)
                     \cup {Chars("Please see Section B2 notes")}
    /\ section = <<>>
    /\ clean = <<>>
    /\ posts = <<>>
    /\ outlines = <<>>
    /\ individual_feedbacks = <<>>
    /\ aggregate_analysis = EmptyDict
    /\ results = EmptyDict
    /\ requests = <<>>
    /\ responses = <<>>
    /\ exit_code = -1
    /\ individual_feedback = EmptyDict
    /\ final_report = EmptyDict
    /\ discussion = EmptyDict
    /\ identified = <<>>
    /\ ai_feedback_posts = <<>>
    /\ InitLoadVars /\ InitReportVars /\ InitToolVars

CleanText ==
    /\ pc = "Given"
    /\ clean' = clean_text(html_text)
    /\ pc' = "Cleaned"
    /\ UNCHANGED <<toolVars, html_text, section, posts, requests, responses, outlineVars, contribVars,
                   mergeVars, ingestVars, loadVars, reportVars>>

ExtractSection ==
    /\ pc = "Given"
    /\ section' = extract_section_from_text(html_text)
    /\ pc' = "Section-Extracted"
    /\ UNCHANGED <<toolVars, html_text, clean, posts, requests, responses, outlineVars, contribVars,
                   mergeVars, ingestVars, loadVars, reportVars>>

AnalyzerExtractSection ==
    /\ pc = "Given"
    /\ section' = analyzer_extract_section_from_text(html_text)
    /\ pc' = "Analyzer-Section-Extracted"
    /\ UNCHANGED <<toolVars, html_text, clean, posts, requests, responses, outlineVars, contribVars,
                   mergeVars, ingestVars, loadVars, reportVars>>

NextText == CleanText \/ ExtractSection \/ AnalyzerExtractSection

SpecText == InitText /\ [][NextText]_vars

(***************************************************************************)
(* The classifier and the reports of the collector and the analyzer.       *)
(***************************************************************************)
TextScreenshot ==
    [lower |-> "see attached screenshot", chars |-> 23, words |-> 3,
     phrases |-> {"attached", "screenshot"}, starts |-> {}]

\* Word counts on both sides of every threshold of the rules.
FeatureWords == {5, 6, 10, 11, 15, 16, 30, 31, 100, 101}

\* What a body can hold of what the rules look for: an image indicator, a file
\* extension, three feedback phrases, the two regex patterns, and two of the
\* words feedback/comment/review (feedback is a feedback phrase too).
FeaturePhrases ==
    {"screenshot", ".jpg", "consider", "clarify", "expand", "suggestion pattern",
     "summary pattern", "feedback", "comment"}

FeatureTexts ==
    {[lower |-> "(text)", chars |-> 6 * w, words |-> w, phrases |-> ph, starts |-> {}] :
        w \in FeatureWords, ph \in SUBSET FeaturePhrases}

\* A reply to post 1 with the given body and the given feedback words in its
\* subject.
FeaturePost(body, subject_words) ==
    [RawPost(2, 1, body) EXCEPT !.subject = [phrases |-> subject_words, chars |-> <<>>]]

InitClassify ==
    /\ pc = "Loaded"
    /\ posts \in {<<FeaturePost(t, sw)>> : t \in FeatureTexts \cup {TextScreenshot},
                                             sw \in {{}, {"feedback"}}}
    /\ outlines = <<>>
    /\ individual_feedbacks = <<>>
    /\ aggregate_analysis = EmptyDict
    /\ results = EmptyDict
    /\ requests = <<>>
    /\ responses = <<>>
    /\ exit_code = -1
    /\ individual_feedback = EmptyDict
    /\ final_report = EmptyDict
    /\ discussion = EmptyDict
    /\ identified = <<>>
    /\ ai_feedback_posts = <<>>
    /\ InitLoadVars /\ InitReportVars /\ InitToolVars /\ InitTextVars

\* AIFeedbackCollector.is_ai_feedback on one post
ClassifyPost ==
    /\ pc = "Loaded"
    /\ \E i \in 1..Len(posts) : feedback_analysis' = is_ai_feedback(posts[i])
    /\ pc' = "Classified"
    /\ UNCHANGED <<toolVars, posts, requests, responses, outlineVars, contribVars, mergeVars,
                   ingestVars, loadVars, textVars, feedback_report, outline_report>>

GenerateFeedbackReport ==
    /\ pc = "Loaded"
    /\ feedback_report' = generate_feedback_report_by_section(posts)
    /\ pc' = "Reported"
    /\ UNCHANGED <<toolVars, posts, requests, responses, outlineVars, contribVars, mergeVars,
                   ingestVars, loadVars, textVars, feedback_analysis, outline_report>>

GenerateOutlineReport ==
    /\ pc = "Loaded"
    /\ outline_report' = generate_outline_submission_report(posts)
    /\ pc' = "Outline-Reported"
    /\ UNCHANGED <<toolVars, posts, requests, responses, outlineVars, contribVars, mergeVars,
                   ingestVars, loadVars, textVars, feedback_analysis, feedback_report>>

NextClassify == ClassifyPost \/ GenerateFeedbackReport

SpecClassify == InitClassify /\ [][NextClassify]_vars

\* An export for the reports: the instructor's post with parent "0", then
\* replies to it by two authors under subjects naming section A or none.
Text140 == [lower |-> "(140 characters)", chars |-> 140, words |-> 26, phrases |-> {},
            starts |-> {}]

ReportTexts == {TextOk, Text130, Text140}

ReportSubjects == {Concat(<<"Section", " ", "A">>), <<>>}

ReportReply(id, author, subject_chars, body) ==
    [RawPost(id, 1, body) EXCEPT !.userid = 100 + author,
                                 !.userfullname = UserFullName(author),
                                 !.subject = [phrases |-> {}, chars |-> subject_chars]]

\* The export whose k replies have the authors, subjects and bodies f gives.
ReportExport(k, f) ==
    <<EncodedRoot(1, "str", Text400)>>
        \o [i \in 1..k |-> ReportReply(i + 1, f[i][1], f[i][2], f[i][3])]

InitReport ==
    /\ pc = "Loaded"
    /\ \E k \in 0..MaxReportReplies :
           \E f \in [1..k -> (2..3) \X ReportSubjects \X ReportTexts] :
               posts = ReportExport(k, f)
    /\ outlines = <<>>
    /\ individual_feedbacks = <<>>
    /\ aggregate_analysis = EmptyDict
    /\ results = EmptyDict
    /\ requests = <<>>
    /\ responses = <<>>
    /\ exit_code = -1
    /\ individual_feedback = EmptyDict
    /\ final_report = EmptyDict
    /\ discussion = EmptyDict
    /\ identified = <<>>
    /\ ai_feedback_posts = <<>>
    /\ InitLoadVars /\ InitReportVars /\ InitToolVars /\ InitTextVars

NextReport == GenerateFeedbackReport \/ GenerateOutlineReport

SpecReport == InitReport /\ [][NextReport]_vars

(***************************************************************************)
(* The four loaders.  A document is the text of the export file: a flat    *)
(* array of records, or an array whose single element is that array        *)
(* (wrapped); gap says whether whitespace follows its first bracket, as in *)
(* "[ [" or "[\n  {".                                                      *)
(***************************************************************************)
Documents ==
    [wrapped : BOOLEAN, gap : BOOLEAN, records : UNION {Exports(k) : k \in 0..MaxPosts}]

\* discussion_processor.py line 63
StartsWithTwoBrackets(doc) == doc.wrapped /\ ~doc.gap

\* discussion_processor.py lines 63-66: is data the record list?  Otherwise it is
\* the one-element list holding the record list.
DataIsRecords(doc) == ~doc.wrapped \/ StartsWithTwoBrackets(doc)

\* isinstance(data, list) and len(data) > 0, then isinstance(data[0], list):
\* json.load parses whatever whitespace the text has.
PostsOfData(doc) == doc.records

InitLoad ==
    /\ pc = "Start"
    /\ document \in Documents
    /\ posts = <<>>
    /\ outlines = <<>>
    /\ individual_feedbacks = <<>>
    /\ aggregate_analysis = EmptyDict
    /\ results = EmptyDict
    /\ requests = <<>>
    /\ responses = <<>>
    /\ exit_code = -1
    /\ individual_feedback = EmptyDict
    /\ final_report = EmptyDict
    /\ discussion = EmptyDict
    /\ identified = <<>>
    /\ ai_feedback_posts = <<>>
    /\ InitReportVars /\ InitToolVars /\ InitTextVars

\* DiscussionProcessor.parse_discussion_json.  When data is the one-element
\* list, _sanitize_post is given the inner list, and list has no method get:
\* AttributeError, logged and raised again at lines 70-72.
ParseDiscussionJson ==
    /\ pc = "Start"
    /\ IF DataIsRecords(document) /\ ~SanitizeRaises(document.records)
       THEN /\ posts' = document.records
            /\ discussion' = structure_discussion_data(document.records)
            /\ pc' = "Structured"
       ELSE /\ pc' = "Raised"
            /\ UNCHANGED <<posts, discussion>>
    /\ UNCHANGED <<readerVars, requests, responses, outlineVars, contribVars, mergeVars,
                   identified, ai_feedback_posts>>

LoadedPosts(loader) ==
    /\ pc = "Start"
    /\ posts' = PostsOfData(document)
    /\ pc' = loader
    /\ UNCHANGED <<readerVars, requests, responses, outlineVars, contribVars, mergeVars,
                   ingestVars>>

\* OutlineFeedbackProcessor.parse_discussion_json
ParseOutlineDiscussionJson == LoadedPosts("Parsed")

\* AIFeedbackCollector.load_data
CollectorLoadData == LoadedPosts("Collector-Loaded")

\* OutlineAnalyzer.load_data
AnalyzerLoadData == LoadedPosts("Analyzer-Loaded")

NextLoad ==
    ParseDiscussionJson \/ ParseOutlineDiscussionJson \/ CollectorLoadData \/ AnalyzerLoadData

SpecLoad == InitLoad /\ [][NextLoad]_vars

(***************************************************************************)
(* Claims about the outline feedback run (SpecOutline).                    *)
(***************************************************************************)
Finished == pc \in {"Done", "Exited"}

\* The calls of the Generating-Individual stage are the first Len(outlines) ones.
IndividualCalls == 1..Len(individual_feedbacks)

SynthesisIssued == requests # <<>> /\ requests[Len(requests)].stage = "synthesis"

SynthesisFailed == SynthesisIssued /\ Raises(responses[Len(responses)])

\* C2: when a run is over and the service returned non-JSON text for at least
\* one candidate (its entry is a fallback record), the synthesis call was
\* issued and every fallback record is part of its input.
C2_SynthesisUsesFallbacks ==
    (Finished /\ \E i \in IndividualCalls :
                    "parsing_error" \in DOMAIN individual_feedbacks[i])
    => /\ SynthesisIssued
       /\ \A i \in IndividualCalls :
            "parsing_error" \in DOMAIN individual_feedbacks[i]
            => individual_feedbacks[i] \in Range(requests[Len(requests)].detail)

\* A response that is not a JSON object: non-JSON text, empty text, or JSON
\* that is not an object.
NotJsonObject(o) == o \in {"text", "empty", "nonobject"}

\* C3: every individual call that returned text which is not a JSON object
\* left a fallback record (overall_score "N/A", parsing_error set, non-empty
\* raw_feedback) and no error entry; the same for the synthesis call with
\* raw_analysis.
C3_ParseFailureGivesFallback ==
    /\ \A i \in IndividualCalls :
         NotJsonObject(responses[i])
         => LET f == individual_feedbacks[i] IN
            /\ "error" \notin DOMAIN f
            /\ "parsing_error" \in DOMAIN f
            /\ "overall_score" \in DOMAIN f /\ f.overall_score = "N/A"
            /\ "raw_feedback" \in DOMAIN f /\ f.raw_feedback # ""
    /\ (Finished /\ SynthesisIssued /\ NotJsonObject(responses[Len(responses)]))
         => /\ "error" \notin DOMAIN aggregate_analysis
            /\ "parsing_error" \in DOMAIN aggregate_analysis
            /\ "raw_analysis" \in DOMAIN aggregate_analysis
            /\ aggregate_analysis.raw_analysis # ""

\* C4: the aggregate step leaves the individual feedback list as it was, the
\* returned results carry that list, and when the synthesis call raised, the
\* results carry an error marker as aggregate_analysis and are not themselves
\* an error result.
C4_AggregateFailureKeepsIndividual ==
    [][pc = "Synthesizing-Aggregate"
       => /\ individual_feedbacks' = individual_feedbacks
          /\ results'.individual_feedbacks = individual_feedbacks
          /\ (Len(responses') > Len(responses) /\ Raises(responses'[Len(responses')]))
               => /\ "error" \in DOMAIN results'.aggregate_analysis
                  /\ "error" \notin DOMAIN results']_vars

\* C4 witness: a finished run whose synthesis call raised, after a batch that
\* holds both a feedback record and a per-candidate error entry.
C4_Witness ==
    /\ Finished /\ SynthesisFailed
    /\ Len(results.individual_feedbacks) = 2
    /\ \E i \in IndividualCalls : "error" \in DOMAIN results.individual_feedbacks[i]
    /\ \E i \in IndividualCalls : IsValidFeedback(results.individual_feedbacks[i])

\* C6: a run over a discussion that has posts but no candidate ends without a
\* generation call, with a result that is not an error result, and the runner
\* does not report failure.
C6_NoCandidatesIsNotFailure ==
    (pc = "Exited" /\ posts # <<>> /\ outlines = <<>>)
    => /\ requests = <<>>
       /\ "error" \notin DOMAIN results
       /\ exit_code = 0

\* The same export with every author display name replaced by one other name.
Renamed(ps, name) == [i \in 1..Len(ps) |-> [ps[i] EXCEPT !.userfullname = name]]

\* C10: a run over an input that differs only in the author names issues the
\* same individual prompts, and no stored individual result carries the
\* author's display name.
C10_PromptsIgnoreAuthors ==
    \A i \in IndividualCalls :
        /\ requests[i] = IndividualPrompt(extract_student_outlines(Renamed(posts, "Zed"))[i])
        /\ "student_name" \notin DOMAIN individual_feedbacks[i]

(***************************************************************************)
(* Claims about the per-contribution analysis (SpecContrib).               *)
(***************************************************************************)
\* C1: when the stage has returned, a generation call was issued for every
\* candidate and the result collection holds exactly one entry per candidate,
\* in candidate order, whichever calls failed.
C1_OneEntryPerCandidate ==
    pc = "Returned"
    => LET candidates == outline_posts(posts) IN
       /\ Len(requests) = Len(candidates)
       /\ DOMAIN individual_feedback = 1..Len(candidates)
       /\ \A i \in 1..Len(candidates) : individual_feedback[i].post_id = candidates[i].id

(***************************************************************************)
(* Claims about the final merge (SpecMerge).                               *)
(***************************************************************************)
\* C5: a generation call of the merge stage that fails or times out does not
\* leave the run in an unhandled exception.
C5_MergeFailureCaught ==
    (responses # <<>> /\ Raises(responses[Len(responses)])) => pc # "Raised"

(***************************************************************************)
(* Claims about the readers of an export (SpecIngest).                     *)
(***************************************************************************)
RootIds == {posts[i].id : i \in {j \in 1..Len(posts) : posts[j].parent = 0}}

IsReplyToRoot(post) == post.parent \in RootIds /\ post.message.chars > MinOutlineChars

\* C7: for an export with one root post, extract_student_outlines returns
\* exactly the direct replies to that root whose plain text is longer than
\* 50 characters, in input order, wherever the root sits in the list.
C7_ExtractsRepliesToRoot ==
    (pc = "Extracted" /\ Cardinality(RootIds) = 1)
    => outlines = MapSeq(SelectSeq(posts, IsReplyToRoot), OutlineData)

\* The ids of the raw records whose content is present.
ContentPresentIds ==
    {posts[i].id : i \in {j \in 1..Len(posts) : has_content(posts[j].message)}}

\* The ids reachable from the ids in frontier through the reply lists.
RECURSIVE ReachableFrom(_, _, _)
ReachableFrom(d, frontier, seen) ==
    IF frontier \subseteq seen THEN seen
    ELSE ReachableFrom(d,
             UNION {IF n \in DOMAIN d.replies THEN Range(d.replies[n]) ELSE {} : n \in frontier},
             seen \cup frontier)

TreeIds(d) == ReachableFrom(d, Range(d.threaded_discussion), {})

\* The places of the tree that hold id: positions of the root list and of the
\* reply lists of reachable nodes.
TreePlaces(d, id) ==
    {<<0, i>> : i \in {j \in 1..Len(d.threaded_discussion) : d.threaded_discussion[j] = id}}
    \cup UNION {{<<n, i>> : i \in {j \in 1..Len(d.replies[n]) : d.replies[n][j] = id}} :
                  n \in TreeIds(d) \cap DOMAIN d.replies}

\* C8: in the structured discussion every content-present post is in the tree
\* exactly once, the tree holds no other id, and a post whose parent is
\* neither the root sentinel nor a present post is in the root list.
C8_TreeHoldsEveryPresentPost ==
    pc = "Structured"
    => /\ TreeIds(discussion) = ContentPresentIds
       /\ \A id \in ContentPresentIds : Cardinality(TreePlaces(discussion, id)) = 1
       /\ \A i \in 1..Len(posts) :
            (/\ posts[i].id \in ContentPresentIds
             /\ posts[i].parent # 0
             /\ posts[i].parent \notin ContentPresentIds)
            => posts[i].id \in Range(discussion.threaded_discussion)

\* A post whose plain text is at most 15 characters long or is a trivial token.
IsShortPost(post) ==
    post.message.chars <= MinContentChars \/ post.message.lower \in TrivialTokens

\* Every id held by the structured discussion, reachable or not.
DiscussionIds(d) ==
    Range(d.threaded_discussion)
    \cup DOMAIN d.replies
    \cup UNION {Range(d.replies[n]) : n \in DOMAIN d.replies}
    \cup {d.student_contributions[i].id : i \in 1..Len(d.student_contributions)}

ShortPostAbsentFromThreadsAndOutlines(post) ==
    /\ pc = "Structured" => post.id \notin DiscussionIds(discussion)
    /\ pc = "Extracted" => post.id \notin {outlines[i].post_id : i \in 1..Len(outlines)}
    /\ pc = "Identified" => post.id \notin {identified[i].id : i \in 1..Len(identified)}

C11_FlatAndWrappedLoadAlike ==
    pc # "Start" => (pc # "Raised" /\ posts = document.records)

(***************************************************************************)
(* Claims about the parent encodings (SpecEncoded).                        *)
(***************************************************************************)
PostTypes == {"student_outline", "ai_feedback", "instructor_prompt", "student_response",
              "reply", "general_post"}

\* A root post: its parent is the sentinel, however written.
IsRootPost(post) == post.parent = 0

\* The tag the claim's rule order gives a clean post.
TagByRuleOrder(post) ==
    LET phrases == post.clean_message.phrases IN
    CASE Intersects(phrases, {"outline", "position:", "reason1"}) -> "student_outline"
      [] OTHER -> CASE Intersects(phrases, {"deepseek", "chatgpt", "ai"}) -> "ai_feedback"
      [] OTHER -> CASE IsRootPost(post) /\ post.clean_message.chars > 200 -> "instructor_prompt"
      [] OTHER -> CASE Intersects(phrases, {"agree", "disagree"}) -> "student_response"
      [] OTHER -> CASE ~IsRootPost(post) -> "reply"
      [] OTHER -> "general_post"

\* C12: classifying the posts of an export never raises, whether a parent is
\* absent, null or the root sentinel, and every post gets the tag of the first
\* rule that matches it, one of the six.
C12_ClassifierNeverRaises ==
    /\ pc # "Raised"
    /\ pc = "Structured" =>
           \A i \in 1..Len(posts) :
               LET post == sanitize_post(posts[i])
               IN  post.post_type \in PostTypes /\ post.post_type = TagByRuleOrder(post)

InstructorPhrases ==
    {"first spend", "reply to this post", "pair up and discuss", "you are an experienced"}

IsInstructorRoot(post) ==
    IsRootPost(post) /\ Intersects(post.message.phrases, InstructorPhrases)

\* C18: the instructor's root post is in neither the identified outline posts
\* nor the collected feedback posts, whether its parent is written 0, "0" or
\* not at all, and wherever it sits in the export.
C18_RootPostExcluded ==
    /\ pc = "Identified" => \A j \in 1..Len(identified) : ~IsInstructorRoot(identified[j])
    /\ pc = "Collected" =>
           \A j \in 1..Len(ai_feedback_posts) : ~IsInstructorRoot(ai_feedback_posts[j])

(***************************************************************************)
(* Claims about the text functions (SpecText).                             *)
(***************************************************************************)
\* The pattern with this label word matches somewhere in the text: the word,
\* any whitespace, then at least one alphanumeric.
PatternMatches(label, str) ==
    \E i \in 1..Len(str) :
        /\ LabelAt(Chars(label), str, i)
        /\ \E j \in (i + Len(Chars(label)))..Len(str) :
               /\ IsAlnum(str[j])
               /\ \A k \in (i + Len(Chars(label)))..(j - 1) : IsSpace(str[k])

\* The token a matching pattern captures: the alphanumerics after the label
\* word and the whitespace of its leftmost match.
Captured(label, str) ==
    LET i == CHOOSE i \in 1..Len(str) :
                 /\ GroupAt(Chars(label), str, i) # <<>>
                 /\ \A k \in 1..(i - 1) : GroupAt(Chars(label), str, k) = <<>>
    IN  GroupAt(Chars(label), str, i)

SectionByPriority(str) ==
    CASE PatternMatches("Section", str) -> Captured("Section", str)
      [] OTHER -> CASE PatternMatches("Sec", str) -> Captured("Sec", str)
      [] OTHER -> CASE PatternMatches("Class", str) -> Captured("Class", str)
      [] OTHER -> CASE PatternMatches("Group", str) -> Captured("Group", str)
      [] OTHER -> Chars("Unknown")

C20_CleanTextIdempotent ==
    pc = "Cleaned" => clean_text(clean) = clean

(***************************************************************************)
(* Claims about the classifier and the reports (SpecClassify, SpecReport). *)
(***************************************************************************)
\* The image likelihood of the post that was classified.
ImageLikelihood(post) ==
    is_likely_image_submission(post.message, post.subject, post.message.words)

\* C13: the type and confidence of a classified post are those of the first
\* applicable rule: image-like; score >= 3; score >= 1 and more than 30 words;
\* more than 100 words and one of feedback/comment/review; otherwise none.
C13_FirstApplicableRule ==
    pc = "Classified" =>
        LET post == posts[1]
            image == ImageLikelihood(post)
            score == feedback_analysis.feedback_score
            words == post.message.words
            keyword == Intersects(post.message.phrases, {"feedback", "comment", "review"})
            type == feedback_analysis.feedback_type
            confidence == feedback_analysis.confidence
        IN  /\ image.is_image => type = "image_based" /\ confidence = image.confidence
            /\ ~image.is_image /\ score >= 3 => type = "text_feedback" /\ confidence = "high"
            /\ ~image.is_image /\ score < 3 /\ score >= 1 /\ words > 30
                   => type = "text_feedback" /\ confidence = "medium"
            /\ ~image.is_image /\ score < 3 /\ ~(score >= 1 /\ words > 30)
                   /\ words > 100 /\ keyword
                   => type = "text_feedback" /\ confidence = "medium"
            /\ ~image.is_image /\ score < 3 /\ ~(score >= 1 /\ words > 30)
                   /\ ~(words > 100 /\ keyword)
                   => type = "none"
            /\ feedback_analysis.is_feedback <=> type # "none"

\* An image-like post with a score of 3 or more has been classified as
\* image_based: the first rule decided although the second applies too.
C13_Witness ==
    /\ pc = "Classified"
    /\ feedback_analysis.is_image
    /\ feedback_analysis.feedback_score >= 3
    /\ feedback_analysis.feedback_type = "image_based"

\* The rule of the image likelihood that the claim's order gives a post.
ImageRuleByOrder(post) ==
    LET words == post.message.words
        body == post.message.phrases
    IN  CASE words <= 5 -> "very_short_message"
          [] OTHER -> CASE words <= 15 /\ Intersects(body, Range(image_indicators))
                               -> "short_message_with"
          [] OTHER -> CASE Intersects(body, {"<img", ".jpg", ".png", ".jpeg", ".gif"})
                               -> "image_html_tags"
          [] OTHER -> CASE words <= 10 /\ Intersects(post.subject.phrases, FeedbackWords)
                               -> "short_with_feedback_subject"
          [] OTHER -> "sufficient_text_content"

\* C14: the image rules fire in the stated order, and what is stored for an
\* image-like post carries image_based, the confidence and the reason of the
\* rule that fired, in the feedback analysis and in the image details of its
\* section: "See attached screenshot" is reported as very_short_message.
C14_ImageReasonReported ==
    /\ pc \in {"Classified", "Reported"} =>
           ImageLikelihood(posts[1]).reason[1] = ImageRuleByOrder(posts[1])
    /\ (pc = "Classified" /\ ImageLikelihood(posts[1]).is_image) =>
           /\ feedback_analysis.feedback_type = "image_based"
           /\ feedback_analysis.confidence = ImageLikelihood(posts[1]).confidence
           /\ "reason" \in DOMAIN feedback_analysis
           /\ feedback_analysis.reason = ImageLikelihood(posts[1]).reason
    /\ (pc = "Reported" /\ ImageLikelihood(posts[1]).is_image) =>
           \A sec \in DOMAIN feedback_report.by_section :
               \A i \in 1..Len(feedback_report.by_section[sec].image_feedback_details) :
                   feedback_report.by_section[sec].image_feedback_details[i].reason
                       = ImageLikelihood(posts[1]).reason

\* The authors of a section's posts.
AuthorsOf(ps, sec) == {ps[i].userid : i \in {j \in 1..Len(ps) : ps[j].section = sec}}

\* C16: in the outline report every section's total_words is the sum of the
\* word counts of its per-participant summaries, its average_words is
\* total_words over the participant count to the nearest tenth, and the
\* summary's total is the sum of the sections' totals.
C16_SectionTotalsConserved ==
    pc = "Outline-Reported" =>
        LET by_section == outline_report.by_section
            RECURSIVE SummaryWords(_, _)
            SummaryWords(students, n) ==
                IF n = 0 THEN 0 ELSE students[n].word_count + SummaryWords(students, n - 1)
            RECURSIVE SectionWords(_)
            SectionWords(S) ==
                IF S = {} THEN 0
                ELSE LET x == CHOOSE y \in S : TRUE
                     IN  by_section[x].total_words + SectionWords(S \ {x})
        IN  /\ \A sec \in DOMAIN by_section :
                   LET stats == by_section[sec]
                       diff == 10 * stats.total_words
                                   - stats.average_words * stats.student_count
                   IN  /\ stats.total_words = SummaryWords(stats.students, Len(stats.students))
                       /\ stats.student_count = Len(stats.students)
                       /\ 2 * diff <= stats.student_count
                       /\ -2 * diff <= stats.student_count
            /\ outline_report.summary.total_words_across_all_outlines
                   = SectionWords(DOMAIN by_section)

\* A section of three outlines whose average is not a whole number of tenths
\* has been reported.
C16_Witness ==
    /\ pc = "Outline-Reported"
    /\ \E sec \in DOMAIN outline_report.by_section :
           /\ outline_report.by_section[sec].student_count = 3
           /\ (10 * outline_report.by_section[sec].total_words) % 3 # 0

\* C17: the participant count of every section is the number of distinct
\* authors of the section's posts, in the outline report and in the feedback
\* report.
C17_DistinctAuthorsCounted ==
    /\ pc = "Outline-Reported" =>
           \A sec \in DOMAIN outline_report.by_section :
               outline_report.by_section[sec].student_count
                   = Cardinality(AuthorsOf(outline_report.detailed_outlines, sec))
    /\ pc = "Reported" =>
           \A sec \in DOMAIN feedback_report.by_section :
               feedback_report.by_section[sec].students_with_feedback
                   = Cardinality(AuthorsOf(feedback_report.all_feedback_posts, sec))

(***************************************************************************)
(* Claims about the structured discussion (SpecIngest), continued.         *)
(***************************************************************************)
\* The instructor heuristic, on a raw record.
SatisfiesInstructorHeuristic(post) ==
    \/ Intersects(post.message.phrases, InstructorPhrases)
    \/ (post.message.chars > 300 /\ IsRootPost(post))

ContentPresent(post) ==
    post.message.chars > MinContentChars /\ post.message.lower \notin TrivialTokens

\* C15: student_contributions are the content-present posts that do not
\* satisfy the instructor heuristic, total_posts is student_posts plus the
\* instructor posts, and instructor_context is the first root post in scan
\* order that satisfies the heuristic, absent when there is none.
C15_StudentsAndInstructorContext ==
    pc = "Structured" =>
        LET IsStudent(post) == ContentPresent(post) /\ ~SatisfiesInstructorHeuristic(post)
            IsInstructor(post) == ContentPresent(post) /\ SatisfiesInstructorHeuristic(post)
            InstructorRoots == {i \in 1..Len(posts) :
                                   IsInstructor(posts[i]) /\ IsRootPost(posts[i])}
            Id(post) == post.id
        IN  /\ MapSeq(discussion.student_contributions, Id)
                   = MapSeq(SelectSeq(posts, IsStudent), Id)
            /\ discussion.metadata.student_posts = Len(discussion.student_contributions)
            /\ discussion.metadata.total_posts
                   = discussion.metadata.student_posts + Len(SelectSeq(posts, IsInstructor))
            /\ discussion.instructor_context =
                   IF InstructorRoots = {} THEN <<>>
                   ELSE <<posts[CHOOSE i \in InstructorRoots :
                                    \A j \in InstructorRoots : i <= j].id>>

\* A discussion with an instructor root post and a reply of more than 300
\* characters, which is a student's, has been structured.
C15_Witness ==
    /\ pc = "Structured"
    /\ discussion.instructor_context # <<>>
    /\ \E i \in 1..Len(discussion.student_contributions) :
           discussion.student_contributions[i].clean_message.chars > 300

(***************************************************************************)
(* Further claims about the classifier and the feedback report.            *)
(***************************************************************************)
\* C30: a feedback analysis is consistent: is_feedback exactly when the type
\* is not none; none has confidence low and is not an image; text_feedback has
\* confidence medium or high, is not an image and has more than 5 words;
\* image_based exactly when is_image, with confidence medium or high.
C30_AnalysisConsistent ==
    pc = "Classified" =>
        LET a == feedback_analysis IN
        /\ a.is_feedback <=> a.feedback_type # "none"
        /\ a.feedback_type \in {"none", "text_feedback", "image_based"}
        /\ a.feedback_type = "none" => a.confidence = "low" /\ ~a.is_image
        /\ a.feedback_type = "text_feedback" =>
               a.confidence \in {"medium", "high"} /\ ~a.is_image /\ a.word_count > 5
        /\ a.feedback_type = "image_based" <=> a.is_image
        /\ a.feedback_type = "image_based" => a.confidence \in {"medium", "high"}

\* A post of 6 words with three feedback phrases has been classified as text
\* feedback of high confidence.
C30_Witness ==
    /\ pc = "Classified"
    /\ feedback_analysis.feedback_type = "text_feedback"
    /\ feedback_analysis.word_count = 6
    /\ feedback_analysis.confidence = "high"

\* C29: every collected post is counted in one section and as one of text or
\* image: per section the total is the text count plus the image count, and
\* the three totals of the summary are the sums of the sections' counts.
C29_FeedbackCountsConserved ==
    pc = "Reported" =>
        LET by_section == feedback_report.by_section
            summary == feedback_report.summary
            RECURSIVE SumOver(_, _)
            SumOver(S, field) ==
                IF S = {} THEN 0
                ELSE LET x == CHOOSE y \in S : TRUE
                     IN  by_section[x][field] + SumOver(S \ {x}, field)
        IN  /\ \A sec \in DOMAIN by_section :
                   by_section[sec].total_feedback_posts
                       = by_section[sec].text_feedback_count
                             + by_section[sec].image_feedback_count
            /\ summary.total_feedback_posts = Len(feedback_report.all_feedback_posts)
            /\ summary.total_feedback_posts
                   = summary.total_text_feedback + summary.total_image_feedback
            /\ summary.total_feedback_posts = SumOver(DOMAIN by_section, "total_feedback_posts")
            /\ summary.total_text_feedback = SumOver(DOMAIN by_section, "text_feedback_count")
            /\ summary.total_image_feedback = SumOver(DOMAIN by_section, "image_feedback_count")

\* A report with text feedback in one section and image feedback in another.
C29_Witness ==
    /\ pc = "Reported"
    /\ Cardinality(DOMAIN feedback_report.by_section) = 2
    /\ feedback_report.summary.total_text_feedback >= 1
    /\ feedback_report.summary.total_image_feedback >= 1

(***************************************************************************)
(* Further claims about the outline feedback run.                          *)
(***************************************************************************)
\* C28: whenever generate_aggregate_analysis returns an analysis (structured
\* or raw fallback), students_analyzed + errors_encountered is the number of
\* individual feedback entries given, students_analyzed is at least 1, and
\* errors_encountered is the number of entries that are error objects.
C28_MetadataCounts ==
    (pc = "Done" /\ "students_analyzed" \in DOMAIN aggregate_analysis) =>
        LET IsErrorObject(f) == "error" \in DOMAIN f
            ErrorObjects(feedbacks) == SelectSeq(feedbacks, IsErrorObject)
        IN
        /\ aggregate_analysis.students_analyzed + aggregate_analysis.errors_encountered
               = Len(individual_feedbacks)
        /\ aggregate_analysis.students_analyzed >= 1
        /\ aggregate_analysis.errors_encountered = Len(ErrorObjects(individual_feedbacks))

\* C27: every generation call of the run carries an explicit token budget and
\* a temperature in the band of its kind: 0.2 to 0.3 for the calls that ask
\* for a structured JSON result (individual outline feedback), 0.4 to 0.7 for
\* the synthesis call.  Temperatures are in tenths.
C27_TemperatureInBand ==
    \A i \in 1..Len(requests) :
        /\ "max_tokens" \in DOMAIN requests[i] /\ requests[i].max_tokens > 0
        /\ "temperature10" \in DOMAIN requests[i]
        /\ requests[i].stage = "individual" => requests[i].temperature10 \in 2..3
        /\ requests[i].stage = "synthesis" => requests[i].temperature10 \in 4..7

\* C25: in a run with n >= 1 candidates, the i-th generation call is the
\* individual request of the i-th candidate, every call has its outcome
\* before the next is issued, a synthesis request comes only as call n + 1
\* after the n individual outcomes, and the run ends with n or n + 1 calls.
C25_SequentialRequests ==
    LET n == Len(outlines) IN
    /\ [](/\ Len(responses) = Len(requests)
          /\ Len(requests) <= n + 1
          /\ \A i \in 1..Len(requests) :
                IF i <= n
                THEN /\ requests[i].stage = "individual"
                     /\ requests[i].student = outlines[i].student_name
                     /\ requests[i].content = outlines[i].outline_text
                     /\ Len(individual_feedbacks) >= i
                ELSE /\ requests[i].stage = "synthesis"
                     /\ Len(individual_feedbacks) = n
          /\ (pc \in {"Done", "Exited"} /\ n >= 1) => Len(requests) \in {n, n + 1})
    /\ <>(pc \in {"Done", "Exited"})

\* A run over two candidates of different students has ended after the two
\* individual requests and the synthesis request.
C25_Witness ==
    /\ pc = "Done"
    /\ Len(outlines) = 2
    /\ outlines[1].student_name # outlines[2].student_name
    /\ Len(requests) = 3
    /\ requests[3].stage = "synthesis"

(***************************************************************************)
(* Further claims about the structured discussion.                         *)
(***************************************************************************)
\* C26: thread linking does not depend on record order: every present post
\* whose parent is a present post is in the parent's reply list, whether it
\* comes before or after its parent in the export, and every reply list is
\* in scan order.
C26_LinkedWhateverTheOrder ==
    pc = "Structured" =>
        /\ \A i \in 1..Len(posts) :
             (/\ posts[i].id \in ContentPresentIds
              /\ posts[i].parent \in ContentPresentIds)
             => /\ posts[i].parent \in DOMAIN discussion.replies
                /\ posts[i].id \in Range(discussion.replies[posts[i].parent])
        /\ \A n \in DOMAIN discussion.replies :
             \A a, b \in 1..Len(discussion.replies[n]) :
                a < b => discussion.replies[n][a] < discussion.replies[n][b]

(***************************************************************************)
(* process_discussions.process_discussion_batch, one step per iteration of *)
(* its loop over json_files.                                               *)
(***************************************************************************)
\* The methods class DiscussionProcessor defines.
DiscussionProcessorMethods ==
    {"__init__", "_load_config", "parse_discussion_json", "_structure_discussion_data",
     "_sanitize_post", "_classify_post_type", "_is_instructor_post",
     "_analyze_discussion_flow", "_find_most_active_period",
     "generate_comprehensive_feedback", "_generate_overall_feedback",
     "_analyze_individual_contributions", "_assess_academic_writing",
     "_analyze_engagement_patterns", "_assess_learning_outcomes",
     "_generate_summary_insights", "run_comprehensive_analysis",
     "_aggregate_data_for_llm", "_get_system_prompt_for_final_analysis",
     "_save_final_report"}

\* line 72, processor.process_discussion_file(...): how the expression can
\* end.  The class defines no such method, so the attribute lookup raises
\* AttributeError before anything is called.
ProcessFileOutcomes ==
    IF "process_discussion_file" \in DiscussionProcessorMethods
    THEN {"results", "KeyError", "Exception"}
    ELSE {"AttributeError"}

\* lines 75-82 and 93-98: the summary of one file
FileSummary(json_file, o) ==
    IF o = "results"
    THEN [file |-> json_file, status |-> "success", output_file |-> <<json_file, "feedback">>]
    ELSE [file |-> json_file, status |-> "error", error |-> o]

\* The loop leaving a failed file out of the summary, for comparison.
SummaryWithoutFailures(summary, json_file, o) ==
    IF o = "results" THEN Append(summary, FileSummary(json_file, o)) ELSE summary

\* lines 83 and 99: results_summary after the iteration for json_file
SummaryAfter(summary, json_file, o) == Append(summary, FileSummary(json_file, o))

FileNames == {"week1.json", "week2.json", "week3.json", "week4.json"}

\* What input_path.glob can return: distinct names, in any order.
RECURSIVE FileLists(_)
FileLists(n) ==
    IF n = 0 THEN {<<>>}
    ELSE {Append(fs, f) : fs \in FileLists(n - 1), f \in FileNames} \cup FileLists(n - 1)

InitBatch ==
    /\ pc = "Globbed"
    /\ json_files \in {fs \in FileLists(MaxFiles) :
                          \A i, j \in 1..Len(fs) : i # j => fs[i] # fs[j]}
    /\ results_summary = <<>>
    /\ files_attempted = 0
    /\ posts = <<>>
    /\ outlines = <<>>
    /\ individual_feedbacks = <<>>
    /\ aggregate_analysis = EmptyDict
    /\ results = EmptyDict
    /\ requests = <<>>
    /\ responses = <<>>
    /\ exit_code = -1
    /\ individual_feedback = EmptyDict
    /\ final_report = EmptyDict
    /\ discussion = EmptyDict
    /\ identified = <<>>
    /\ ai_feedback_posts = <<>>
    /\ InitLoadVars /\ InitReportVars /\ InitTextVars
    /\ InitRepeatVars /\ InitDuplicatorVars

batchOthers ==
    <<posts, requests, responses, outlineVars, contribVars, mergeVars, ingestVars,
      loadVars, reportVars, textVars, repeatVars, duplicatorVars>>

\* lines 56-62: no file, and the function returns None
StartBatch ==
    /\ pc = "Globbed"
    /\ pc' = IF json_files = <<>> THEN "Returned-None" ELSE "Batch-Processing"
    /\ UNCHANGED <<batchVars, batchOthers>>

\* lines 64-99: one iteration, its try and its except
ProcessFile ==
    /\ pc = "Batch-Processing"
    /\ files_attempted < Len(json_files)
    /\ \E o \in ProcessFileOutcomes :
         results_summary' =
             SummaryAfter(results_summary, json_files[files_attempted + 1], o)
    /\ files_attempted' = files_attempted + 1
    /\ UNCHANGED <<pc, json_files, batchOthers>>

\* lines 101-107
ReturnSummary ==
    /\ pc = "Batch-Processing"
    /\ files_attempted = Len(json_files)
    /\ pc' = "Returned"
    /\ UNCHANGED <<batchVars, batchOthers>>

NextBatch == StartBatch \/ ProcessFile \/ ReturnSummary

SpecBatch == InitBatch /\ [][NextBatch]_vars

\* C21: a failure on one file aborts only that file: every file of the batch
\* is attempted, and the summary returned has one entry per file, in the
\* order of the files, each marked success or error.
C21_OneEntryPerFile ==
    /\ Len(results_summary) = files_attempted
    /\ pc = "Returned" =>
        /\ files_attempted = Len(json_files)
        /\ Len(results_summary) = Len(json_files)
        /\ \A i \in 1..Len(json_files) :
             /\ results_summary[i].file = json_files[i]
             /\ results_summary[i].status \in {"success", "error"}
             /\ results_summary[i].status = "error" => "error" \in DOMAIN results_summary[i]

\* A batch of three files has returned after the first file failed.
C21_Witness ==
    /\ pc = "Returned"
    /\ Len(json_files) = 3
    /\ results_summary[1].status = "error"
    /\ Len(results_summary) = 3

(***************************************************************************)
(* MaterialDuplicationManager: get_course_materials,                       *)
(* duplicate_material_to_course and duplicate_materials_bulk, one step per *)
(* call of the Moodle client.  An Optional field of a DuplicationResult is *)
(* the list of its value, empty for None.                                  *)
(***************************************************************************)
Module(id, name, modname, visible) ==
    [id |-> id, name |-> name, modname |-> modname, visible |-> visible]

\* What client.get_course_contents can return: sections in course order, one
\* of them without the key 'modules'.
CourseContents ==
    {<<>>,
     <<[section |-> 0, name |-> "General",
        modules |-> <<Module(1, "Assignment 1", "assign", TRUE),
                      Module(2, "Quiz 1", "quiz", TRUE)>>]>>,
     <<[section |-> 0, name |-> "General",
        modules |-> <<Module(1, "Assignment 1", "assign", TRUE)>>],
       [section |-> 1, name |-> "Week 1",
        modules |-> <<Module(2, "Quiz 1", "quiz", FALSE)>>]>>,
     <<[section |-> 0, name |-> "General"],
       [section |-> 1, name |-> "Week 1",
        modules |-> <<Module(3, "Forum Discussion", "forum", TRUE),
                      Module(4, "Label", "label", TRUE)>>]>>}

\* lines 90-108, the inner loop over section['modules'] from module i on
RECURSIVE SectionMaterials(_, _, _, _)
SectionMaterials(sec, i, material_types, include_hidden) ==
    IF i > Len(sec.modules) THEN <<>>
    ELSE LET module == sec.modules[i]
             rest == SectionMaterials(sec, i + 1, material_types, include_hidden)
         IN  IF ~include_hidden /\ ~module.visible THEN rest
             ELSE IF /\ material_types # {}
                     /\ "all" \notin material_types
                     /\ module.modname \notin material_types
             THEN rest
             ELSE <<[id |-> module.id, name |-> module.name, modname |-> module.modname,
                     visible |-> module.visible, source_section |-> sec.section,
                     source_section_name |-> sec.name]>> \o rest

\* lines 86-110
RECURSIVE get_course_materials(_, _, _)
get_course_materials(course_contents, material_types, include_hidden) ==
    IF course_contents = <<>> THEN <<>>
    ELSE LET sec == Head(course_contents)
             rest == get_course_materials(Tail(course_contents), material_types,
                                          include_hidden)
         IN  IF "modules" \notin DOMAIN sec THEN rest
             ELSE SectionMaterials(sec, 1, material_types, include_hidden) \o rest

\* lines 188-211: the base module data and the intro of the module type
prepare_module_data(source_material, target_section) ==
    [modulename |-> source_material.modname,
     section    |-> target_section,
     name       |-> source_material.name,
     visible    |-> source_material.visible,
     intro      |-> CASE source_material.modname = "assign" -> <<"Duplicated assignment">>
                      [] source_material.modname = "quiz"   -> <<"Duplicated quiz">>
                      [] source_material.modname = "forum"  -> <<"Duplicated forum">>
                      [] OTHER -> <<>>]

\* How self.client.add_module(...) can end: a dict with cmid, a result without
\* it, an exception of the API, and AttributeError when the client is a
\* MoodleAPIClient, which defines no add_module.
AddModuleOutcomes == {"cmid", "no_cmid", "API Error", "AttributeError"}

\* lines 130-172
duplicate_material_to_course(source_material, target_course_id, target_section, o) ==
    IF o = "cmid"
    THEN [source_module_id |-> source_material.id,
          target_course_id |-> target_course_id,
          target_module_id |-> <<100>>,
          success          |-> TRUE,
          error_message    |-> <<>>,
          material_type    |-> <<source_material.modname>>,
          material_name    |-> <<source_material.name>>]
    ELSE [source_module_id |-> source_material.id,
          target_course_id |-> target_course_id,
          target_module_id |-> <<>>,
          success          |-> FALSE,
          error_message    |-> IF o = "no_cmid"
                               THEN <<"Failed to create module - no cmid returned">>
                               ELSE <<o>>,
          material_type    |-> <<source_material.modname>>,
          material_name    |-> <<source_material.name>>]

\* lines 291-295
TargetSection(material, section_mapping) ==
    IF material.source_section \in DOMAIN section_mapping
    THEN section_mapping[material.source_section]
    ELSE material.source_section

\* The two loops nested the other way round, for comparison.
PairAtMaterialMajor(target_course_ids, source_materials, k) ==
    [course   |-> target_course_ids[((k - 1) % Len(target_course_ids)) + 1],
     material |-> source_materials[((k - 1) \div Len(target_course_ids)) + 1]]

\* lines 286-289: the target course and the material of the k-th iteration
PairAt(target_course_ids, source_materials, k) ==
    [course   |-> target_course_ids[((k - 1) \div Len(source_materials)) + 1],
     material |-> source_materials[((k - 1) % Len(source_materials)) + 1]]

TargetCourses == <<200, 201, 202, 203>>

InitDuplicate ==
    /\ pc = "Bulk-Start"
    /\ \E n \in 0..MaxTargets, contents \in CourseContents,
          material_types \in {{}, {"assign"}, {"assign", "quiz"}, {"all"}},
          include_hidden \in BOOLEAN, section_mapping \in {EmptyDict, [x \in {1} |-> 3]} :
         job = [source_course_id |-> 99,
                target_course_ids |-> SubSeq(TargetCourses, 1, n),
                material_types |-> material_types,
                include_hidden |-> include_hidden,
                section_mapping |-> section_mapping,
                course_contents |-> contents,
                source_materials |-> <<>>]
    /\ add_module_calls = <<>>
    /\ duplication_results = <<>>
    /\ duplication_report = EmptyDict
    /\ posts = <<>>
    /\ outlines = <<>>
    /\ individual_feedbacks = <<>>
    /\ aggregate_analysis = EmptyDict
    /\ results = EmptyDict
    /\ requests = <<>>
    /\ responses = <<>>
    /\ exit_code = -1
    /\ individual_feedback = EmptyDict
    /\ final_report = EmptyDict
    /\ discussion = EmptyDict
    /\ identified = <<>>
    /\ ai_feedback_posts = <<>>
    /\ InitLoadVars /\ InitReportVars /\ InitTextVars
    /\ InitRepeatVars /\ InitBatchVars

duplicatorOthers ==
    <<posts, requests, responses, outlineVars, contribVars, mergeVars, ingestVars,
      loadVars, reportVars, textVars, repeatVars, batchVars>>

\* lines 275-281 and 305-307: the materials are read, or get_course_contents
\* raises and the exception is logged and raised again
GetCourseMaterials ==
    /\ pc = "Bulk-Start"
    /\ \E raised \in BOOLEAN :
         IF raised
         THEN pc' = "Bulk-Raised" /\ job' = job
         ELSE /\ job' = [job EXCEPT !.source_materials =
                            get_course_materials(job.course_contents, job.material_types,
                                                 job.include_hidden)]
              /\ pc' = "Duplicating"
    /\ UNCHANGED <<add_module_calls, duplication_results, duplication_report,
                   duplicatorOthers>>

BulkPairs == Len(job.target_course_ids) * Len(job.source_materials)

\* lines 286-301: one iteration of the inner loop
DuplicateMaterial ==
    /\ pc = "Duplicating"
    /\ Len(duplication_results) < BulkPairs
    /\ \E o \in AddModuleOutcomes :
         LET pair == PairAt(job.target_course_ids, job.source_materials,
                            Len(duplication_results) + 1)
             target_section == TargetSection(pair.material, job.section_mapping)
         IN  /\ add_module_calls' =
                    Append(add_module_calls,
                           [course_id   |-> pair.course,
                            module_data |-> prepare_module_data(pair.material,
                                                                target_section),
                            outcome     |-> o])
             /\ duplication_results' =
                    Append(duplication_results,
                           duplicate_material_to_course(pair.material, pair.course,
                                                        target_section, o))
    /\ UNCHANGED <<pc, job, duplication_report, duplicatorOthers>>

\* line 303
ReturnResults ==
    /\ pc = "Duplicating"
    /\ Len(duplication_results) = BulkPairs
    /\ pc' = "Duplicated"
    /\ UNCHANGED <<duplicatorVars, duplicatorOthers>>

NextDuplicate == GetCourseMaterials \/ DuplicateMaterial \/ ReturnResults

SpecDuplicate == InitDuplicate /\ [][NextDuplicate]_vars

\* C23: duplicate_materials_bulk returns one result per pair of a target
\* course and a selected material, ordered by target course and then by
\* material; a failing add_module call gives a result with success False, no
\* target module id and the error message, and the calls for the remaining
\* pairs are still made.
C23_OneResultPerPair ==
    pc = "Duplicated" =>
        LET targets == job.target_course_ids
            materials == get_course_materials(job.course_contents, job.material_types,
                                              job.include_hidden)
            m == Len(materials)
        IN  /\ Len(duplication_results) = Len(targets) * m
            /\ Len(add_module_calls) = Len(targets) * m
            /\ \A c \in 1..Len(targets) : \A j \in 1..m :
                 LET r == duplication_results[(c - 1) * m + j]
                     call == add_module_calls[(c - 1) * m + j]
                 IN  /\ r.target_course_id = targets[c]
                     /\ r.source_module_id = materials[j].id
                     /\ call.course_id = targets[c]
                     /\ call.module_data.name = materials[j].name
                     /\ r.success <=> call.outcome = "cmid"
                     /\ call.outcome # "cmid" =>
                            /\ r.target_module_id = <<>>
                            /\ r.error_message # <<>>
                     /\ call.outcome \in {"API Error", "AttributeError"} =>
                            r.error_message = <<call.outcome>>

\* Two materials have been duplicated to two courses; the first call failed
\* and the last succeeded.
C23_Witness ==
    /\ pc = "Duplicated"
    /\ Len(duplication_results) = 4
    /\ ~duplication_results[1].success
    /\ duplication_results[1].error_message = <<"API Error">>
    /\ duplication_results[4].success
    /\ duplication_results[2].target_course_id # duplication_results[3].target_course_id

(***************************************************************************)
(* MaterialDuplicationManager.generate_duplication_report                  *)
(***************************************************************************)
CountSuccess(rs) == Len(SelectSeq(rs, LAMBDA r : r.success))

\* The failures counted as the results that carry an error message, for
\* comparison.
FailedByMessage(rs) == Len(SelectSeq(rs, LAMBDA r : r.error_message # <<>>))

\* line 321: failed = total - successful
Failed(rs) == Len(rs) - CountSuccess(rs)

\* lines 324-341: the loop from result i on
RECURSIVE GroupByCourse(_, _, _)
GroupByCourse(rs, i, by_course) ==
    IF i > Len(rs) THEN by_course
    ELSE LET result == rs[i]
             course_id == result.target_course_id
             seen == IF course_id \in DOMAIN by_course THEN by_course[course_id]
                     ELSE [success |-> 0, failed |-> 0, materials |-> <<>>]
             counted == IF result.success
                        THEN [seen EXCEPT !.success = @ + 1]
                        ELSE [seen EXCEPT !.failed = @ + 1]
             entry == [counted EXCEPT !.materials =
                          Append(@, [name    |-> result.material_name,
                                     type    |-> result.material_type,
                                     success |-> result.success,
                                     error   |-> result.error_message])]
         IN  GroupByCourse(rs, i + 1, Put(by_course, course_id, entry))

\* line 345: result.material_type or 'unknown'
TypeOrUnknown(result) ==
    IF result.material_type = <<>> \/ result.material_type = <<"">> THEN "unknown"
    ELSE result.material_type[1]

\* lines 344-354: the loop from result i on
RECURSIVE GroupByType(_, _, _)
GroupByType(rs, i, by_type) ==
    IF i > Len(rs) THEN by_type
    ELSE LET result == rs[i]
             mat_type == TypeOrUnknown(result)
             seen == IF mat_type \in DOMAIN by_type THEN by_type[mat_type]
                     ELSE [success |-> 0, failed |-> 0]
             entry == IF result.success
                      THEN [seen EXCEPT !.success = @ + 1]
                      ELSE [seen EXCEPT !.failed = @ + 1]
         IN  GroupByType(rs, i + 1, Put(by_type, mat_type, entry))

FailedOperation(r) ==
    [material_name |-> r.material_name,
     material_type |-> r.material_type,
     target_course |-> r.target_course_id,
     error         |-> r.error_message]

\* lines 319-372.  success_rate is the quotient successful / total * 100 as
\* the fraction num / den, and the number 0 of an empty list as 0 / 1.
generate_duplication_report(rs) ==
    LET total == Len(rs)
        successful == CountSuccess(rs)
        failed == Failed(rs)
    IN  [summary |->
             [total_operations |-> total,
              successful       |-> successful,
              failed           |-> failed,
              success_rate     |-> IF total > 0
                                   THEN [num |-> successful * 100, den |-> total]
                                   ELSE [num |-> 0, den |-> 1]],
         by_course |-> GroupByCourse(rs, 1, EmptyDict),
         by_material_type |-> GroupByType(rs, 1, EmptyDict),
         failed_operations |->
             MapSeq(SelectSeq(rs, LAMBDA r : ~r.success), FailedOperation)]

\* Results as a caller can build them: for one of two courses, of a type or of
\* none, successful, failed with a message, or failed without one.
ResultChoices ==
    {200, 201} \X {<<"assign">>, <<"quiz">>, <<>>}
               \X {"success", "failed", "failed_silently"}

ResultOf(choice, i) ==
    [source_module_id |-> i,
     target_course_id |-> choice[1],
     target_module_id |-> IF choice[3] = "success" THEN <<100 + i>> ELSE <<>>,
     success          |-> choice[3] = "success",
     error_message    |-> IF choice[3] = "failed" THEN <<"API Error">> ELSE <<>>,
     material_type    |-> choice[2],
     material_name    |-> IF choice[2] = <<>> THEN <<>> ELSE <<"Material">>]

InitDuplicationReport ==
    /\ pc = "Duplicated"
    /\ \E k \in 0..MaxResults : \E f \in [1..k -> ResultChoices] :
         duplication_results = [i \in 1..k |-> ResultOf(f[i], i)]
    /\ job = EmptyDict
    /\ add_module_calls = <<>>
    /\ duplication_report = EmptyDict
    /\ posts = <<>>
    /\ outlines = <<>>
    /\ individual_feedbacks = <<>>
    /\ aggregate_analysis = EmptyDict
    /\ results = EmptyDict
    /\ requests = <<>>
    /\ responses = <<>>
    /\ exit_code = -1
    /\ individual_feedback = EmptyDict
    /\ final_report = EmptyDict
    /\ discussion = EmptyDict
    /\ identified = <<>>
    /\ ai_feedback_posts = <<>>
    /\ InitLoadVars /\ InitReportVars /\ InitTextVars
    /\ InitRepeatVars /\ InitBatchVars

GenerateDuplicationReport ==
    /\ pc = "Duplicated"
    /\ duplication_report' = generate_duplication_report(duplication_results)
    /\ pc' = "Duplication-Reported"
    /\ UNCHANGED <<job, add_module_calls, duplication_results, duplicatorOthers>>

NextDuplicationReport == GenerateDuplicationReport

SpecDuplicationReport == InitDuplicationReport /\ [][NextDuplicationReport]_vars

\* C24: in the report of any list of results, successful + failed is
\* total_operations, the success and failed counts per course and per material
\* type each sum to the overall counts, failed_operations lists exactly the
\* results with success False, and the empty list gives success_rate 0.
C24_ReportCountsConserved ==
    pc = "Duplication-Reported" =>
        LET summary == duplication_report.summary
            RECURSIVE SumGroups(_, _, _)
            SumGroups(groups, keys, field) ==
                IF keys = {} THEN 0
                ELSE LET key == CHOOSE x \in keys : TRUE
                     IN  groups[key][field] + SumGroups(groups, keys \ {key}, field)
            by_course == duplication_report.by_course
            by_type == duplication_report.by_material_type
            failures == {i \in 1..Len(duplication_results) : ~duplication_results[i].success}
            Rank(i) == Cardinality({j \in failures : j <= i})
        IN  /\ summary.total_operations = Len(duplication_results)
            /\ summary.successful + summary.failed = summary.total_operations
            /\ summary.failed = Cardinality(failures)
            /\ SumGroups(by_course, DOMAIN by_course, "success") = summary.successful
            /\ SumGroups(by_course, DOMAIN by_course, "failed") = summary.failed
            /\ SumGroups(by_type, DOMAIN by_type, "success") = summary.successful
            /\ SumGroups(by_type, DOMAIN by_type, "failed") = summary.failed
            /\ Len(duplication_report.failed_operations) = Cardinality(failures)
            /\ \A i \in failures :
                 LET op == duplication_report.failed_operations[Rank(i)]
                     r == duplication_results[i]
                 IN  /\ op.target_course = r.target_course_id
                     /\ op.material_type = r.material_type
                     /\ op.material_name = r.material_name
                     /\ op.error = r.error_message
            /\ duplication_results = <<>> => summary.success_rate.num = 0

\* A report of three results for two courses: one success, one failure with a
\* message, and one failure without a message and without a type.
C24_Witness ==
    /\ pc = "Duplication-Reported"
    /\ Len(duplication_results) = 3
    /\ DOMAIN duplication_report.by_course = {200, 201}
    /\ duplication_report.summary.successful = 1
    /\ "unknown" \in DOMAIN duplication_report.by_material_type
    /\ \E i \in 1..3 : /\ ~duplication_results[i].success
                       /\ duplication_results[i].error_message = <<>>

(***************************************************************************)
(* The two classifiers called again and again, on the posts of one export  *)
(* after another.  call_log holds what each call was given and returned.   *)
(***************************************************************************)
\* A post with the given body, feedback words in its subject, and value of
\* the export's wordcount field.
RepeatPost(id, parent, body, subject_words, wordcount) ==
    [RawPost(id, parent, body) EXCEPT !.subject = [phrases |-> subject_words, chars |-> <<>>],
                                      !.wordcount = wordcount]

\* Root posts and replies by different authors, whose wordcount field is the
\* number of words of the body or 0.
RepeatPosts ==
    {RepeatPost(ip[1], ip[2], body, sw, IF counted THEN body.words ELSE 0) :
        ip \in {<<1, 0>>, <<2, 0>>, <<3, 1>>, <<4, 2>>},
        body \in {Text50, Text130},
        sw \in {{}, {"feedback"}},
        counted \in BOOLEAN}

InitRepeat ==
    /\ pc = "Loaded"
    /\ posts \in {<<p>> : p \in RepeatPosts}
    /\ call_log = {}
    /\ outlines = <<>>
    /\ individual_feedbacks = <<>>
    /\ aggregate_analysis = EmptyDict
    /\ results = EmptyDict
    /\ requests = <<>>
    /\ responses = <<>>
    /\ exit_code = -1
    /\ individual_feedback = EmptyDict
    /\ final_report = EmptyDict
    /\ discussion = EmptyDict
    /\ identified = <<>>
    /\ ai_feedback_posts = <<>>
    /\ InitLoadVars /\ InitReportVars /\ InitTextVars
    /\ InitBatchVars /\ InitDuplicatorVars

repeatOthers ==
    <<requests, responses, outlineVars, contribVars, mergeVars, ingestVars,
      loadVars, reportVars, textVars, batchVars, duplicatorVars>>

\* _sanitize_post line 171 and collect_ai_feedback_posts line 202: the two
\* classifiers on one post of the export
ClassifierCall ==
    /\ pc = "Loaded"
    /\ Cardinality(call_log) < MaxCalls
    /\ \E i \in 1..Len(posts) :
         call_log' = call_log \cup
             {[id                |-> posts[i].id,
               body              |-> posts[i].message,
               subject           |-> posts[i].subject,
               is_root           |-> ParentEquals(posts[i], 0),
               post_type         |-> sanitize_post(posts[i]).post_type,
               feedback_analysis |-> is_ai_feedback(posts[i])]}
    /\ UNCHANGED <<pc, posts, repeatOthers>>

\* Another run: the program is started on another export.
NewRun ==
    /\ pc = "Loaded"
    /\ posts' \in {<<p>> : p \in RepeatPosts}
    /\ UNCHANGED <<pc, call_log, repeatOthers>>

NextRepeat == ClassifierCall \/ NewRun

SpecRepeat == InitRepeat /\ [][NextRepeat]_vars

\* C22: classification is a function of the body, the subject and the root
\* flag: two calls given the same three, on whatever posts, in whatever run
\* and after whatever other calls, returned the same post_type and the same
\* feedback analysis.
C22_SameInputSameClassification ==
    \A a, b \in call_log :
        (a.body = b.body /\ a.subject = b.subject /\ a.is_root = b.is_root)
        => /\ a.post_type = b.post_type
           /\ a.feedback_analysis = b.feedback_analysis

\* Two posts of different runs with the same body, subject and root flag have
\* been classified, and a third post with another body in between.
C22_Witness ==
    \E a, b, c \in call_log :
        /\ a.id # b.id
        /\ a.body = b.body /\ a.subject = b.subject /\ a.is_root = b.is_root
        /\ a.feedback_analysis.feedback_type = "text_feedback"
        /\ c.body # a.body

====
